---- MODULE Spec2Model ----
(***************************************************************************)
(* Model of the kohzu-controller command pipeline:                         *)
(*   protocol::Dispatcher, comm::Writer, comm::AsioTcpClient (as seen by   *)
(*   its callers), controller::MotorController.                            *)
(* Every action is one critical section or one blocking step of a thread   *)
(* of the program.                                                         *)
(***************************************************************************)
EXTENDS Integers, Sequences, FiniteSets, TLC

\* ---------------------------------------------------------------- bounds
MaxOps == 2            \* movement commands issued through the manager
MaxSyncCalls == 3      \* sendSync calls
MaxLines == 3          \* lines the device sends
WriterMaxQueue == 2    \* stand-in for the Writer capacity (1000 in the code)
MaxStarts == 1         \* MotorController::start() calls that take effect
MaxStops == 1          \* MotorController::stop() calls on one controller
MaxCbReqs == 2         \* callback-style sendAsync calls
MaxConnects == 1       \* connectOnce calls that succeed
MaxPollReqs == 2       \* RDP requests issued by Poller::scheduleRdp
MaxWLines == 3         \* lines handed to a Writer used on its own
MaxWStarts == 2        \* Writer::start() calls that create a worker
MaxWStops == 2         \* Writer::stop() calls
MaxRestarts == 2       \* MotorController::start() calls, counting one after stop()
MaxRefused == 2        \* movement calls the manager refuses
MaxFields == 3         \* fields after the first one in a line to decode
MaxSends == 2          \* AsioTcpClient::sendLine calls
MaxDisconnects == 2    \* AsioTcpClient::disconnect calls
MaxWireLines == 3      \* lines the device sends to an AsioTcpClient
MaxMonStarts == 3      \* calls of KohzuController::startMonitoring
MaxOverlap == 2        \* operations under way on one axis at a time
MaxHandlers == 2       \* registerSpontaneousHandler calls

\* promises ever registered with the Dispatcher: a move and its two final reads
MaxSlots == 3 * MaxOps

Slots == 1..MaxSlots
Ops == 1..MaxOps
UserThread == 0
Threads == {UserThread} \cup Slots

\* exception messages
TimeoutMsg == "timeout waiting for response"
DisconnectMsg == "TCP disconnected"
NoSlot == 0
NoLine == 0

\* ---------------------------------------------------------------- inputs
Callers == {"c1", "c2"}          \* threads that call sendSync
PollCaller == "c1"               \* the thread that calls the Poller
SyncCmds == {"RDP"}
CbCmds == {"APS", "RDP"}
AxisParam == "1"
Axes == {AxisParam}          \* axes given to the Poller

\* Impl::makeKey: cmd, then ":" and params[0] when there is a non-empty one
makeKey(cmd, p0) == IF p0 # "" THEN <<cmd, p0>> ELSE <<cmd>>

\* key the recv handler computes from a parsed Response
replyKey(cmd, axis) == IF axis # "" THEN <<cmd, axis>> ELSE <<cmd>>

AllCmds == {"APS", "RDP", "STR"}
Keys == {makeKey(c, AxisParam) : c \in AllCmds}

\* Impl::movementCommands
movementCommands == {"APS", "MPS", "RPS"}

VARIABLES
  \* protocol::Dispatcher
  pending,        \* pending_ : key -> deque of promises (slot ids)
  slotKey,        \* key a slot was registered under
  slotOwner,      \* who holds the future of the slot
  slotState,      \* "free" | "pending" | "value" | "error"
  slotVal,        \* serial number of the reply stored by set_value
  slotErr,        \* message stored by set_exception
  failedFor,      \* the slot of the call whose removePendingWithException failed this slot
  nValue,         \* number of set_value calls on the promise
  nError,         \* number of set_exception calls on the promise
  registered,     \* history: key -> slots in addPending order
  matched,        \* history: key -> serials of the lines tryFulfill matched
  spont,          \* serials handed to notifySpontaneous
  \* transport
  connected,      \* AsioTcpClient::Impl::connected_
  reading,        \* an async_read_until is outstanding
  lineNo,         \* lines delivered so far
  ioPosted,       \* disconnect callbacks posted to the io_context
  recvHandlerSet, \* recvHandler_ is non-empty
  onDisconnectSet,\* onDisconnect_ is non-empty
  \* comm::Writer
  writer,         \* "null" | "up" : MotorController::Impl::writer
  wq,             \* queue_
  wStop,          \* stopRequested_
  wPc,            \* worker thread: "none" | "run" | "exit"
  \* MotorController
  cbWorkerRunning,
  stopRequested,
  cbQueue,        \* cbQueue : deque of CallbackTask (slot ids)
  cbPc,           \* callback worker: "none" | "top" | "wait" | "get" | "exit"
  cbTask,         \* task the worker holds
  detached,       \* callbacks handed to a detached thread, not yet run
  cbCount,        \* slot -> number of times its callback was invoked
  cbArg,          \* slot -> what the callback was invoked with
  nStarts,        \* number of start() calls that took effect
  nStops,         \* number of stop() calls that returned
  stopPc,         \* thread in MotorController::stop()
  \* callers of sendSync
  pc, mySlot, myKey,
  \* caller of the callback-style sendAsync
  apc, aSlot, aCmd,
  \* KohzuManager
  mRunning,       \* running_
  mConnected,     \* connected_
  mCtrl,          \* motorCtrl_ : "null" | "set"
  mPoller,        \* poller_ : "null" | "set"
  pollerRunning,  \* Poller::running_ of *poller_ (its thread exists iff TRUE)
  activeOps,      \* activeOperations_
  autoReconnect,  \* autoReconnect_
  ctPc,           \* connectThread_: "none" | "loop" | "pubOk" | "pubFail" | "done"
  nConnects,      \* connectOnce calls that succeeded
  tpc,            \* thread -> position in the manager's code; thread 0 calls
                  \* the manager, thread s is the detached thread of slot s
  remaining,      \* op -> the counter dispatchFinalReads shares between its callbacks
  nOps,           \* movement commands issued (notifyOperationStarted calls)
  accepted,       \* op -> the move call passed sendAsync without a throw
  decremented,    \* op -> notifyOperationFinished calls made for it
  mStopped,       \* KohzuManager::stop() has returned, startAsync not called since
  pendingAtStop,  \* slots that were pending when stop() was called
  \* Poller
  axesOrder,      \* axesOrder_
  lastPolled,     \* axes that have an entry in lastPolled_
  activeAxes,     \* activeAxes_
  inflightRdp,    \* inflightRdp_ : axis -> slot of the future, NoSlot when absent
  ppc,            \* the thread in runLoop
  pSnap,          \* handleCompletedInflight: the axes in finished
  pFut,           \* handleCompletedInflight: the future moved out of the map
  pAxes,          \* runLoop: the part of axesCopy still to visit
  upc,            \* the thread that calls the Poller
  uAxis,          \* the axis argument of its call
  uSlot,          \* scheduleRdp: the future sendAsync returned to it
  \* comm::Writer used on its own: histories and the threads that call it
  wRunning,       \* running_
  wItem,          \* workerLoop: the line popped from queue_
  wSent,          \* history: lines passed to ITcpClient::sendLine, in order
  wAccepted,      \* history: lines pushed to queue_, in order
  wFails,         \* history: sendLine calls that threw
  wErrCalls,      \* history: calls of errorHandler_
  wMtxOwner,      \* Writer::mtx_: "worker" while the worker owns it across a call
  wFailed,        \* a sendLine call of the current worker has thrown
  epc,            \* thread -> "idle" | "enq" (inside Writer::enqueue)
  eLine,          \* thread -> the line it enqueues
  nEnq,           \* lines handed to enqueue / tryEnqueue so far
  opc,            \* the thread that calls start() and stop(): "idle" | "join"
  oFlush,         \* the flush argument of its stop() call
  qAtStop,        \* history: queue_ when the last stop() call locked mtx_
  wStopped,       \* "no" | "flush" | "drop": the last stop() call has returned
  nWStarts,       \* start() calls that created a worker
  nWStops,        \* stop() calls that returned
  \* controller::StateCache and the replies that feed it
  cPos,           \* axis -> AxisState::position, as the serial of the reply it
                  \* was parsed from; NoLine when there is none
  cRun,           \* axis -> AxisState::running: "unset" | "true" | "false"
  lineKind,       \* pairs <<serial, kind>> of the lines whose params[0] is not
                  \* a plain number
  cachePtr,       \* op -> cachePtr of its dispatchFinalReads: "null" | "set"
  posUpdated,     \* history: axis -> updatePosition ran for it since the last
                  \* Poller::notifyOperationFinished call began
  finLogged,      \* history: that call wrote a failed final read to std::cerr
  \* MotorController operation callbacks
  opCb,           \* onOperationStart / onOperationFinish are registered
  opStarted,      \* history: slot -> calls of onOperationStart for its request
  opFinished,     \* history: slot -> calls of onOperationFinish for its task
  \* KohzuManager: movement calls that returned false at once
  nRefused,       \* history: the number of such calls
  refusal,        \* history: the message the last of them gave to the callback
  \* Parser: one line and its decoding
  pIn,            \* the parts the line was put together from
  pLine,          \* the line handed to Parser::parse, a sequence of characters
  pImpl,          \* which definition of Parser::parse decoded it
  pResp,          \* the Response it returned
  \* an AsioTcpClient used on its own
  tConnected,     \* connected_
  tOpen,          \* socket_.is_open()
  tReadPending,   \* an async_read_until is outstanding
  tIo,            \* the io_context thread: "run" | "stopped"
  tPosted,        \* copies of onDisconnect_ posted to the io_context, not run yet
  tWrites,        \* writes posted to the strand, not run yet
  tSends,         \* history: sendLine calls
  tDiscCalls,     \* history: disconnect() calls
  tCbRuns,        \* history: invocations of the disconnect handler
  tDowns,         \* history: times connected_ went from true to false
  tLines,         \* history: the lines the device has put on the wire
  wire,           \* bytes on their way to the socket
  rbuf,           \* readBuffer_
  delivered,      \* history: the lines handed to the recv handler
  \* protocol::Dispatcher: the spontaneous handlers and their worker pool
  nHandlers,      \* size of spontaneousHandlers_
  taskQueue,      \* taskQueue_: <<handler, serial of the line>>
  taskMtx,        \* taskMtx_: "free", or the worker that owns it across a step
  stopWorkers,    \* stopWorkers_
  dwPc,           \* worker -> position in the worker lambda, "none" without a pool
  dwTask,         \* worker -> the task it has popped
  dStopPc,        \* position of stopAndJoinWorkers
  invoked,        \* history: <<handler, serial>> -> invocations of the handler
  spontKey,       \* history: the keys of the replies given to notifySpontaneous
  rawResp,        \* history: what Parser::parse returned for the last line handled
  opsOut,         \* history: per axis, the operations started and not yet finished
  removed,        \* history: per axis, removeAxis has returned and the axis was not added since
  \* KohzuController's monitoring thread
  isMonitoringRunning,  \* isMonitoringRunning_
  axesToMonitor,        \* axesToMonitor_, as a set
  monitorMutex,         \* "free" | "monitor": who owns monitorMutex_
  mtPc,                 \* the monitoring thread: "none" | "top" | "lock" | "towait" | "wait"
                        \*   | "woken" | "read" | "exit"
  msPc,                 \* stopMonitoring(): "idle" | "notify" | "join"
  nMonStarts            \* history: calls of startMonitoring that started a thread

dispVars == <<pending, slotKey, slotOwner, slotState, slotVal, slotErr, failedFor,
              nValue, nError, registered, matched, spont>>
tcpVars == <<connected, reading, lineNo, ioPosted, recvHandlerSet, onDisconnectSet>>
writerVars == <<writer, wq, wStop, wPc>>
ctrlVars == <<cbWorkerRunning, stopRequested, cbQueue, cbPc, cbTask, detached,
              cbCount, cbArg, nStarts, nStops, stopPc>>
ctrlVars_noStopPc == <<cbWorkerRunning, stopRequested, cbQueue, cbPc, cbTask, detached,
                      cbCount, cbArg, nStarts, nStops>>
syncVars == <<pc, mySlot, myKey>>
asyncVars == <<apc, aSlot, aCmd>>
mgrVars == <<mRunning, mConnected, mCtrl, mPoller, pollerRunning, activeOps,
             autoReconnect, ctPc, nConnects, tpc, remaining, nOps, accepted,
             decremented, mStopped, pendingAtStop>>
mgrVars_noRunning == <<mRunning, mConnected, mCtrl, mPoller, activeOps,
             autoReconnect, ctPc, nConnects, tpc, remaining, nOps, accepted,
             decremented, mStopped, pendingAtStop>>
pollVars == <<axesOrder, lastPolled, activeAxes, inflightRdp, ppc, pSnap, pFut, pAxes,
              upc, uAxis, uSlot>>
\* a Writer used on its own
wrVars == <<wRunning, wItem, wSent, wAccepted, wFails, wErrCalls, wMtxOwner, wFailed, epc, eLine,
            nEnq, opc, oFlush, qAtStop, wStopped, nWStarts, nWStops>>
\* the StateCache, what its writers read, and the histories about them
cacheVars == <<cPos, cRun, lineKind, cachePtr, posUpdated, finLogged>>
\* the operation callbacks of a MotorController and the histories about them
opVars == <<opCb, opStarted, opFinished>>
\* the movement calls a KohzuManager refused
gateVars == <<nRefused, refusal>>
\* what the actions that write the StateCache leave alone
\* a line and its decoding
parseVars == <<pIn, pLine, pImpl, pResp>>
\* an AsioTcpClient used on its own
tcVars == <<tConnected, tOpen, tReadPending, tIo, tPosted, tWrites, tSends, tDiscCalls,
            tCbRuns, tDowns, tLines, wire, rbuf, delivered>>
\* the spontaneous handlers of a Dispatcher and their worker pool
poolVars == <<nHandlers, taskQueue, taskMtx, stopWorkers, dwPc, dwTask, dStopPc, invoked,
              spontKey>>
\* the parts of the program modelled on their own
\* the decoding of the lines the recv handler gets
rawVars == <<rawResp>>
\* the histories of the Poller's operations and removed axes
axVars == <<opsOut, removed>>
\* KohzuController's monitoring
monVars == <<isMonitoringRunning, axesToMonitor, monitorMutex, mtPc, msPc, nMonStarts>>
moreVars == <<poolVars, rawVars, axVars, monVars>>
\* auxVars and sideVars without the Poller's histories
auxLess == <<wrVars, cacheVars, opVars, gateVars, parseVars, tcVars, poolVars, rawVars, monVars>>
sideLess == <<wrVars, opVars, gateVars, parseVars, tcVars, poolVars, rawVars, monVars>>
sideVars == <<wrVars, opVars, gateVars, parseVars, tcVars, moreVars>>
auxVars == <<wrVars, cacheVars, opVars, gateVars, parseVars, tcVars, moreVars>>
extVars == <<mgrVars, pollVars, auxVars>>

vars == <<dispVars, tcpVars, writerVars, ctrlVars, syncVars, asyncVars, extVars>>

\* ------------------------------------------------------------ Dispatcher
SeqToSet(q) == {q[i] : i \in 1..Len(q)}

\* slots held in pending_
InMap == UNION {SeqToSet(pending[k]) : k \in Keys}

NextSlot == Cardinality({s \in Slots : slotState[s] # "free"}) + 1

\* a push_front where the code has push_back
PushFront(q, s) == <<s>> \o q

\* deque::push_back in addPending
PushBack(q, s) == Append(q, s)

\* a front() without the pop_front
PopFrontKept(q) == q

\* deque::pop_front in tryFulfill / removePendingWithException
PopFront(q) == Tail(q)

\* only the front promise of each key
MovedHeadsOnly(p) == {Head(p[k]) : k \in {j \in Keys : p[j] # <<>>}}

\* the promises cancelAllPendingWithException moves out of pending_
MovedByCancelAll(p) == UNION {SeqToSet(p[k]) : k \in Keys}

\* Dispatcher::addPending for a fresh promise s
addPending(k, s, owner) ==
  /\ pending' = [pending EXCEPT ![k] = PushBack(@, s)]
  /\ slotKey' = [slotKey EXCEPT ![s] = k]
  /\ slotOwner' = [slotOwner EXCEPT ![s] = owner]
  /\ slotState' = [slotState EXCEPT ![s] = "pending"]
  /\ registered' = [registered EXCEPT ![k] = Append(@, s)]
  /\ UNCHANGED <<slotVal, slotErr, failedFor, nValue, nError, matched, spont>>

\* Dispatcher::tryFulfill, the branch that returns true
tryFulfillHit(k, serial) ==
  LET s == Head(pending[k]) IN
  /\ pending' = [pending EXCEPT ![k] = PopFront(@)]
  /\ slotState' = [slotState EXCEPT ![s] = "value"]
  /\ slotVal' = [slotVal EXCEPT ![s] = serial]
  /\ nValue' = [nValue EXCEPT ![s] = @ + 1]
  /\ matched' = [matched EXCEPT ![k] = Append(@, serial)]
  /\ UNCHANGED <<slotKey, slotOwner, slotErr, failedFor, nError, registered, spont>>

\* Dispatcher::removePendingWithException
removePendingWithException(k, msg, by) ==
  IF pending[k] # <<>>
  THEN LET s == Head(pending[k]) IN
       /\ pending' = [pending EXCEPT ![k] = PopFront(@)]
       /\ slotState' = [slotState EXCEPT ![s] = "error"]
       /\ slotErr' = [slotErr EXCEPT ![s] = msg]
       /\ failedFor' = [failedFor EXCEPT ![s] = by]
       /\ nError' = [nError EXCEPT ![s] = @ + 1]
       /\ UNCHANGED <<slotKey, slotOwner, slotVal, nValue, registered, matched, spont>>
  ELSE UNCHANGED dispVars

\* Dispatcher::cancelAllPendingWithException
cancelAllPendingWithException(msg) ==
  LET moved == MovedByCancelAll(pending) IN
  /\ pending' = [k \in Keys |-> <<>>]
  /\ slotState' = [s \in Slots |-> IF s \in moved THEN "error" ELSE slotState[s]]
  /\ slotErr' = [s \in Slots |-> IF s \in moved THEN msg ELSE slotErr[s]]
  /\ nError' = [s \in Slots |-> IF s \in moved THEN nError[s] + 1 ELSE nError[s]]
  /\ UNCHANGED <<slotKey, slotOwner, slotVal, failedFor, nValue, registered, matched, spont>>

Ready(s) == slotState[s] \in {"value", "error"}

\* what future::get yields for a ready slot
Outcome(s) == IF slotState[s] = "value" THEN <<"reply", slotVal[s]>>
              ELSE <<"error", slotErr[s]>>

\* ---------------------------------------------------------------- Parser
TAB == "\t"
STX == "STX"
TypeChars == {"C", "W", "E"}
Digits == {"0", "1", "2", "3", "4", "5", "6", "7", "8", "9"}
SYS == <<"S", "Y", "S">>
NoResp == [valid |-> FALSE, type |-> "none", cmd |-> <<>>, axis |-> <<>>, params |-> <<>>,
           raw |-> <<>>]

\* std::string::substr(n - 1): the characters from the n-th on
substr(s, n) == SubSeq(s, n, Len(s))

\* std::toupper on the letters the lines here are made of
ToUpper(c) ==
  CASE c = "s" -> "S"
    [] c = "y" -> "Y"
    [] c = "r" -> "R"
    [] OTHER -> c

\* some character of the string is a digit
AnyDigit(str) == \E i \in 1..Len(str) : str[i] \in Digits

\* Parser.hpp is_all_digits: a non-empty string of digits
is_all_digits(str) == str # <<>> /\ \A i \in 1..Len(str) : str[i] \in Digits

\* Parser.cpp is_digits
is_digits(s) == s # <<>> /\ \A i \in 1..Len(s) : s[i] \in Digits

\* Parser.hpp upper_n
upper_n(src, n) == [i \in 1..(IF Len(src) < n THEN Len(src) ELSE n) |-> ToUpper(src[i])]

\* Parser.cpp to_upper3
to_upper3(s) == [i \in 1..(IF Len(s) < 3 THEN Len(s) ELSE 3) |-> ToUpper(s[i])]

\* Parser.hpp split_keep_empty: the loop from character i on
RECURSIVE SplitKeepFrom(_, _, _, _)
SplitKeepFrom(s, i, token, out) ==
  IF i > Len(s) THEN Append(out, token)
  ELSE IF s[i] = TAB THEN SplitKeepFrom(s, i + 1, <<>>, Append(out, token))
  ELSE SplitKeepFrom(s, i + 1, Append(token, s[i]), out)

split_keep_empty(s) == SplitKeepFrom(s, 1, <<>>, <<>>)

\* std::string::find('\t', start): 0 stands for npos
FindTab(s, start) ==
  LET hits == {i \in start..Len(s) : s[i] = TAB}
  IN IF hits = {} THEN 0 ELSE CHOOSE i \in hits : \A j \in hits : i <= j

\* Parser.cpp split_by_tab: the loop from position start on
RECURSIVE SplitByTabFrom(_, _, _)
SplitByTabFrom(s, start, out) ==
  IF start > Len(s) THEN out
  ELSE LET pos == FindTab(s, start)
       IN IF pos = 0 THEN Append(out, substr(s, start))
          ELSE SplitByTabFrom(s, pos + 1, Append(out, SubSeq(s, start, pos - 1)))

split_by_tab(s) == SplitByTabFrom(s, 1, <<>>)

\* a default-constructed Response with raw set
NewResp(line) ==
  [valid |-> FALSE, type |-> "", cmd |-> <<>>, axis |-> <<>>, params |-> <<>>, raw |-> line]

\* Parser::parse as Parser.hpp defines it in the class
parse(line) ==
  LET r0 == NewResp(line) IN
  IF line = <<>> THEN r0
  ELSE IF line[1] \notin TypeChars THEN r0
  ELSE
    LET r1 == [r0 EXCEPT !.type = line[1]] IN
    IF Len(line) <= 1 THEN r1
    ELSE
      LET rest0 == substr(line, 2)
          rest == IF line[2] = TAB THEN substr(line, 3)
                  ELSE IF rest0 # <<>> /\ rest0[1] = TAB THEN substr(rest0, 2)
                  ELSE rest0
          fields == split_keep_empty(rest)
      IN
      IF fields = <<>> THEN r1
      ELSE
        LET cmdField == fields[1] IN
        IF Len(cmdField) < 3 THEN r1
        ELSE
          LET r2 == [r1 EXCEPT !.cmd = upper_n(cmdField, 3)]
              tail == substr(cmdField, 4)
          IN
          IF Len(cmdField) > 3 /\ ~is_all_digits(tail) THEN r2
          ELSE
            LET r3 == [r2 EXCEPT !.axis = IF Len(cmdField) > 3 THEN tail ELSE <<>>] IN
            IF r3.cmd = SYS
            THEN [r3 EXCEPT !.axis = <<>>,
                            !.params = IF Len(fields) >= 2 /\ fields[2] # <<>>
                                       THEN <<fields[2]>> ELSE <<>>,
                            !.valid = TRUE]
            ELSE [r3 EXCEPT !.params = substr(fields, 2), !.valid = TRUE]

\* Parser::parse as Parser.cpp defines it
parseCpp(lineIn) ==
  LET r0 == NewResp(lineIn) IN
  IF lineIn = <<>> THEN r0
  ELSE IF lineIn[1] = STX /\ Len(lineIn) = 1 THEN r0
  ELSE
    LET line == IF lineIn[1] = STX THEN substr(lineIn, 2) ELSE lineIn IN
    IF line[1] \notin TypeChars THEN r0
    ELSE
      LET r1 == [r0 EXCEPT !.type = line[1]] IN
      IF Len(line) < 2 THEN r1
      ELSE
        LET payload == IF line[2] = TAB THEN substr(line, 3) ELSE substr(line, 2)
            fields == split_by_tab(payload)
        IN
        IF fields = <<>> THEN r1
        ELSE
          LET cmdField == fields[1] IN
          IF Len(cmdField) < 3 THEN r1
          ELSE
            LET r2 == [r1 EXCEPT !.cmd = to_upper3(cmdField)]
                axisPart == substr(cmdField, 4)
            IN
            IF Len(cmdField) > 3 /\ ~is_digits(axisPart)
            THEN IF r2.cmd = SYS
                 THEN [r2 EXCEPT !.params = <<axisPart>> \o substr(fields, 2), !.valid = TRUE]
                 ELSE r2
            ELSE [r2 EXCEPT !.axis = IF Len(cmdField) > 3 THEN axisPart ELSE <<>>,
                            !.params = substr(fields, 2),
                            !.valid = TRUE]

\* the two definitions of Parser::parse in the sources
ParseImpls == {"hpp", "cpp"}

\* the lines decoded here: an optional STX, a type character, an optional
\* TAB, a first field made of a command and a tail, and further fields
FieldVals == {<<>>, <<"5">>, <<"a", "b">>}
FieldSeqs == UNION {[1..n -> FieldVals] : n \in 0..MaxFields}
ParseInputs ==
  [stx : BOOLEAN,
   type : {"C", "E", "Q"},
   tab : BOOLEAN,
   cmd : {<<"S", "Y", "S">>, <<"s", "y", "s">>, <<"R", "D", "P">>, <<"S", "Y">>},
   tail : {<<>>, <<"1">>, <<"1", "2">>, <<"x">>, <<"1", "x">>},
   fields : FieldSeqs]

\* fields, each preceded by a TAB
RECURSIVE JoinTab(_)
JoinTab(fs) == IF fs = <<>> THEN <<>> ELSE <<TAB>> \o fs[1] \o JoinTab(substr(fs, 2))

\* the line a device puts on the wire for these parts, CRLF stripped
MkLine(in) ==
  (IF in.stx THEN <<STX>> ELSE <<>>) \o <<in.type>> \o (IF in.tab THEN <<TAB>> ELSE <<>>)
    \o in.cmd \o in.tail \o JoinTab(in.fields)

\* no line is being decoded
ParseIdle ==
  /\ pIn = [stx |-> FALSE, type |-> "", tab |-> FALSE, cmd |-> <<>>, tail |-> <<>>,
            fields |-> <<>>]
  /\ pLine = <<>>
  /\ pImpl = ""
  /\ pResp = NoResp

\* --------------------------------------------------------- AsioTcpClient
CR == "\r"
LF == "\n"

\* what the device writes for a sequence of lines: each line, then CR LF
RECURSIVE Flatten(_)
Flatten(ls) == IF ls = <<>> THEN <<>> ELSE ls[1] \o <<CR, LF>> \o Flatten(SubSeq(ls, 2, Len(ls)))

\* the lines a device sends: no CR and no LF inside a line
WirePayloads == {<<"a">>, <<"b", "c">>, <<"d", "e", "f">>}
WireStreams == UNION {[1..n -> WirePayloads] : n \in 1..MaxWireLines}

\* async_read_until(socket_, buffer, "\r\n"): the index of the LF of the first
\* CR LF in the buffer, which is bytes_transferred; 0 when there is none
MatchCRLF(b) ==
  LET hits == {i \in 2..Len(b) : b[i - 1] = CR /\ b[i] = LF}
  IN IF hits = {} THEN 0 ELSE CHOOSE i \in hits : \A j \in hits : i <= j

\* the index of the first LF of the buffer, 0 when there is none
FirstLF(b) ==
  LET hits == {i \in 1..Len(b) : b[i] = LF}
  IN IF hits = {} THEN 0 ELSE CHOOSE i \in hits : \A j \in hits : i <= j

\* std::getline(is, line) on an istream over the buffer: the characters before
\* the first LF
getline(b) == SubSeq(b, 1, FirstLF(b) - 1)

\* what std::getline leaves in the buffer: it has extracted the line and the LF
AfterGetline(b) == SubSeq(b, FirstLF(b) + 1, Len(b))

\* if (!line.empty() && line.back() == '\r') line.pop_back()
StripCR(line) ==
  IF line # <<>> /\ line[Len(line)] = CR THEN SubSeq(line, 1, Len(line) - 1) ELSE line

\* boost::asio::streambuf::consume(n): drops n bytes, or all of them if fewer
consume(b, n) == SubSeq(b, (IF n > Len(b) THEN Len(b) ELSE n) + 1, Len(b))

\* no AsioTcpClient is used on its own
TcpIdle ==
  /\ tConnected = FALSE
  /\ tOpen = FALSE
  /\ tReadPending = FALSE
  /\ tIo = "stopped"
  /\ tPosted = 0
  /\ tWrites = 0
  /\ tSends = 0
  /\ tDiscCalls = 0
  /\ tCbRuns = 0
  /\ tDowns = 0
  /\ tLines = <<>>
  /\ wire = <<>>
  /\ rbuf = <<>>
  /\ delivered = <<>>

\* ------------------------------------------------- Dispatcher worker pool
\* DEFAULT_SPONT_WORKERS threads
PoolWorkers == {"w1", "w2"}
NoTask == <<>>
PoolTasks == (1..MaxHandlers) \X (1..MaxLines)

\* no Dispatcher worker pool
PoolIdle ==
  /\ nHandlers = 0
  /\ taskQueue = <<>>
  /\ taskMtx = "free"
  /\ stopWorkers = FALSE
  /\ dwPc = [w \in PoolWorkers |-> "none"]
  /\ dwTask = [w \in PoolWorkers |-> NoTask]
  /\ dStopPc = "idle"
  /\ invoked = [x \in PoolTasks |-> 0]
  /\ spontKey = <<>>

\* Dispatcher::Dispatcher(): startWorkers() has created the threads
PoolStarted ==
  /\ nHandlers = 0
  /\ taskQueue = <<>>
  /\ taskMtx = "free"
  /\ stopWorkers = FALSE
  /\ dwPc = [w \in PoolWorkers |-> "loop"]
  /\ dwTask = [w \in PoolWorkers |-> NoTask]
  /\ dStopPc = "idle"
  /\ invoked = [x \in PoolTasks |-> 0]
  /\ spontKey = <<>>

\* the parts modelled on their own are not in use
AxIdle == opsOut = [a \in Axes |-> 0] /\ removed = [a \in Axes |-> FALSE]
\* a KohzuController after its constructor: no monitoring thread
MonIdle ==
  /\ isMonitoringRunning = FALSE
  /\ axesToMonitor = {}
  /\ monitorMutex = "free"
  /\ mtPc = "none"
  /\ msPc = "idle"
  /\ nMonStarts = 0

MoreIdle == PoolIdle /\ rawResp = NoResp /\ AxIdle /\ MonIdle

\* ------------------------------------------------------------------ Init
InitCommon ==
  /\ pending = [k \in Keys |-> <<>>]
  /\ slotKey = [s \in Slots |-> <<>>]
  /\ slotOwner = [s \in Slots |-> <<"none">>]
  /\ slotState = [s \in Slots |-> "free"]
  /\ slotVal = [s \in Slots |-> 0]
  /\ slotErr = [s \in Slots |-> ""]
  /\ failedFor = [s \in Slots |-> NoSlot]
  /\ nValue = [s \in Slots |-> 0]
  /\ nError = [s \in Slots |-> 0]
  /\ registered = [k \in Keys |-> <<>>]
  /\ matched = [k \in Keys |-> <<>>]
  /\ spont = <<>>
  /\ lineNo = 0
  /\ ioPosted = 0
  /\ recvHandlerSet = FALSE
  /\ onDisconnectSet = FALSE
  /\ writer = "null"
  /\ wq = <<>>
  /\ wStop = FALSE
  /\ wPc = "none"
  /\ cbWorkerRunning = FALSE
  /\ stopRequested = FALSE
  /\ cbQueue = <<>>
  /\ cbPc = "none"
  /\ cbTask = NoSlot
  /\ detached = {}
  /\ cbCount = [s \in Slots |-> 0]
  /\ cbArg = [s \in Slots |-> <<>>]
  /\ nStarts = 0
  /\ nStops = 0
  /\ stopPc = "idle"
  /\ pc = [c \in Callers |-> "idle"]
  /\ mySlot = [c \in Callers |-> NoSlot]
  /\ myKey = [c \in Callers |-> <<>>]
  /\ apc = "idle"
  /\ aSlot = NoSlot
  /\ aCmd = ""
  /\ mRunning = FALSE
  /\ mConnected = FALSE
  /\ mCtrl = "null"
  /\ mPoller = "null"
  /\ pollerRunning = FALSE
  /\ activeOps = 0
  /\ ctPc = "none"
  /\ nConnects = 0
  /\ tpc = [t \in Threads |-> IF t = UserThread THEN "idle" ELSE "none"]
  /\ remaining = [o \in Ops |-> 0]
  /\ nOps = 0
  /\ accepted = [o \in Ops |-> FALSE]
  /\ decremented = [o \in Ops |-> 0]
  /\ mStopped = FALSE
  /\ pendingAtStop = {}
  /\ lastPolled = SeqToSet(axesOrder)
  /\ activeAxes = {}
  /\ inflightRdp = [a \in Axes |-> NoSlot]
  /\ ppc = "none"
  /\ pSnap = {}
  /\ pFut = NoSlot
  /\ pAxes = <<>>
  /\ upc = "idle"
  /\ uAxis = ""
  /\ uSlot = NoSlot
  /\ wRunning = FALSE
  /\ wItem = NoLine
  /\ wSent = <<>>
  /\ wAccepted = <<>>
  /\ wFails = 0
  /\ wErrCalls = 0
  /\ wMtxOwner = "free"
  /\ wFailed = FALSE
  /\ epc = [c \in Callers |-> "idle"]
  /\ eLine = [c \in Callers |-> NoLine]
  /\ nEnq = 0
  /\ opc = "idle"
  /\ oFlush = FALSE
  /\ qAtStop = <<>>
  /\ wStopped = "no"
  /\ nWStarts = 0
  /\ nWStops = 0
  /\ cPos = [a \in Axes |-> NoLine]
  /\ cRun = [a \in Axes |-> "unset"]
  /\ lineKind = {}
  /\ cachePtr = [o \in Ops |-> "null"]
  /\ posUpdated = [a \in Axes |-> FALSE]
  /\ finLogged = FALSE
  /\ opStarted = [s \in Slots |-> 0]
  /\ opFinished = [s \in Slots |-> 0]
  /\ nRefused = 0
  /\ refusal = ""

\* a MotorController constructed over a connected client, used directly
Init ==
  /\ axesOrder = <<>>
  /\ InitCommon
  /\ ParseIdle
  /\ TcpIdle
  /\ MoreIdle
  /\ connected = TRUE
  /\ reading = TRUE
  /\ autoReconnect = FALSE
  /\ opCb = FALSE

\* the same after registerOperationCallbacks(onStart, onFinish)
InitOp ==
  /\ axesOrder = <<>>
  /\ InitCommon
  /\ ParseIdle
  /\ TcpIdle
  /\ MoreIdle
  /\ connected = TRUE
  /\ reading = TRUE
  /\ autoReconnect = FALSE
  /\ opCb = TRUE

\* a Poller constructed over such a MotorController, with or without an axis
InitPoller ==
  /\ axesOrder \in {<<>>, <<AxisParam>>}
  /\ InitCommon
  /\ ParseIdle
  /\ TcpIdle
  /\ MoreIdle
  /\ connected = TRUE
  /\ reading = TRUE
  /\ autoReconnect = FALSE
  /\ opCb = FALSE

\* a KohzuManager after its constructor: no client, no controller, no poller
InitMgr ==
  /\ axesOrder = <<>>
  /\ InitCommon
  /\ ParseIdle
  /\ TcpIdle
  /\ MoreIdle
  /\ connected = FALSE
  /\ reading = FALSE
  /\ autoReconnect \in BOOLEAN
  /\ opCb = FALSE

\* the rest of the program while an AsioTcpClient is used on its own
InitRest ==
  /\ axesOrder = <<>>
  /\ InitCommon
  /\ ParseIdle
  /\ connected = TRUE
  /\ reading = TRUE
  /\ autoReconnect = FALSE
  /\ opCb = FALSE

\* an AsioTcpClient after setOnDisconnect, connect() and start(): the first
\* async_read_until is outstanding
InitTcp ==
  /\ InitRest
  /\ MoreIdle
  /\ tConnected = TRUE
  /\ tOpen = TRUE
  /\ tReadPending = TRUE
  /\ tIo = "run"
  /\ tPosted = 0
  /\ tWrites = 0
  /\ tSends = 0
  /\ tDiscCalls = 0
  /\ tCbRuns = 0
  /\ tDowns = 0
  /\ tLines = <<>>
  /\ wire = <<>>
  /\ rbuf = <<>>
  /\ delivered = <<>>

\* the same with a recv handler registered, and a device that sends lines
InitRead ==
  /\ InitRest
  /\ MoreIdle
  /\ tConnected = TRUE
  /\ tOpen = TRUE
  /\ tReadPending = TRUE
  /\ tIo = "run"
  /\ tPosted = 0
  /\ tWrites = 0
  /\ tSends = 0
  /\ tDiscCalls = 0
  /\ tCbRuns = 0
  /\ tDowns = 0
  /\ tLines \in WireStreams
  /\ wire = Flatten(tLines)
  /\ rbuf = <<>>
  /\ delivered = <<>>

\* a MotorController constructed over a connected client, with the worker
\* pool of its Dispatcher
InitRoute ==
  /\ InitRest
  /\ TcpIdle
  /\ PoolStarted
  /\ rawResp = NoResp
  /\ AxIdle
  /\ MonIdle

\* a line arrives to be decoded
InitParse ==
  /\ axesOrder = <<>>
  /\ InitCommon
  /\ connected = TRUE
  /\ reading = TRUE
  /\ autoReconnect = FALSE
  /\ opCb = FALSE
  /\ TcpIdle
  /\ MoreIdle
  /\ pIn \in ParseInputs
  /\ pLine = MkLine(pIn)
  /\ pImpl = ""
  /\ pResp = NoResp

\* ------------------------------------------------------ MotorController
\* MotorController::start() on a controller whose worker is not running
ctrlStart ==
  /\ ~cbWorkerRunning
  /\ stopPc = "idle"
  /\ nStarts' = nStarts + 1
  /\ cbWorkerRunning' = TRUE
  /\ stopRequested' = FALSE
  /\ IF writer = "null"
     THEN /\ writer' = "up"
          /\ wq' = <<>>
          /\ wStop' = FALSE
          /\ wPc' = "run"
     ELSE UNCHANGED writerVars
  /\ recvHandlerSet' = TRUE
  /\ onDisconnectSet' = TRUE
  /\ cbPc' = "top"
  /\ UNCHANGED <<dispVars, connected, reading, lineNo, ioPosted, cbQueue, cbTask,
                 detached, cbCount, cbArg, nStops, stopPc, syncVars, asyncVars, extVars>>

\* MotorController::start(), the first call
CtrlStart ==
  /\ nStarts < MaxStarts
  /\ ctrlStart

\* MotorController::start() called again after stop() has returned
CtrlStartAgain ==
  /\ nStops > 0
  /\ nStarts < MaxRestarts
  /\ ctrlStart

\* MotorController::sendSync up to and including addPending
sendSyncBegin(c, cmd) ==
  /\ pc[c] = "idle"
  /\ writer = "up"
  /\ stopPc = "idle"
  /\ NextSlot <= MaxSlots
  /\ Cardinality({s \in Slots : slotOwner[s][1] = "sync"}) < MaxSyncCalls
  /\ LET k == makeKey(cmd, AxisParam) IN
     /\ addPending(k, NextSlot, <<"sync", c>>)
     /\ myKey' = [myKey EXCEPT ![c] = k]
  /\ mySlot' = [mySlot EXCEPT ![c] = NextSlot]
  /\ pc' = [pc EXCEPT ![c] = "enq"]
  /\ UNCHANGED <<tcpVars, writerVars, ctrlVars, asyncVars>>

\* sendSync called by a thread of its own
SendSyncBegin(c, cmd) ==
  /\ sendSyncBegin(c, cmd)
  /\ UNCHANGED extVars

\* Writer::enqueue as called by sendSync, and sendSync's catch block
syncEnqueue(c) ==
  /\ pc[c] = "enq"
  /\ wStop \/ Len(wq) < WriterMaxQueue
  /\ IF wStop
     THEN /\ removePendingWithException(myKey[c], "enqueue failed", mySlot[c])
          /\ pc' = [pc EXCEPT ![c] = "idle"]
          /\ mySlot' = [mySlot EXCEPT ![c] = NoSlot]
          /\ myKey' = [myKey EXCEPT ![c] = <<>>]
          /\ UNCHANGED wq
     ELSE /\ wq' = Append(wq, mySlot[c])
          /\ pc' = [pc EXCEPT ![c] = "wait"]
          /\ UNCHANGED <<dispVars, mySlot, myKey>>
  /\ UNCHANGED <<tcpVars, writer, wStop, wPc, ctrlVars, asyncVars>>

\* that step of a sendSync call made by a thread of its own
SyncEnqueue(c) ==
  /\ syncEnqueue(c)
  /\ UNCHANGED extVars

\* sendSync: fut.wait_for(timeout) == ready, then fut.get()
syncReturn(c) ==
  /\ pc[c] = "wait"
  /\ Ready(mySlot[c])
  /\ pc' = [pc EXCEPT ![c] = "idle"]
  /\ mySlot' = [mySlot EXCEPT ![c] = NoSlot]
  /\ myKey' = [myKey EXCEPT ![c] = <<>>]
  /\ UNCHANGED <<dispVars, tcpVars, writerVars, ctrlVars, asyncVars>>

SyncReturn(c) ==
  /\ syncReturn(c)
  /\ UNCHANGED extVars

\* sendSync: fut.wait_for(timeout) returns timeout
SyncTimeout(c) ==
  /\ pc[c] = "wait"
  /\ ~Ready(mySlot[c])
  /\ pc' = [pc EXCEPT ![c] = "tmo"]
  /\ UNCHANGED <<dispVars, tcpVars, writerVars, ctrlVars, mySlot, myKey, asyncVars, extVars>>

\* sendSync: the else branch after the timeout
syncTimeoutRemove(c) ==
  /\ pc[c] = "tmo"
  /\ removePendingWithException(myKey[c], TimeoutMsg, mySlot[c])
  /\ pc' = [pc EXCEPT ![c] = "idle"]
  /\ mySlot' = [mySlot EXCEPT ![c] = NoSlot]
  /\ myKey' = [myKey EXCEPT ![c] = <<>>]
  /\ UNCHANGED <<tcpVars, writerVars, ctrlVars, asyncVars>>

SyncTimeoutRemove(c) ==
  /\ syncTimeoutRemove(c)
  /\ UNCHANGED extVars

\* callback-style sendAsync up to and including addPending
SendAsyncCbBegin(cmd) ==
  /\ apc = "idle"
  /\ writer = "up"
  /\ stopPc = "idle"
  /\ NextSlot <= MaxSlots
  /\ Cardinality({s \in Slots : slotOwner[s] = <<"cb">>}) < MaxCbReqs
  /\ addPending(makeKey(cmd, AxisParam), NextSlot, <<"cb">>)
  /\ aSlot' = NextSlot
  /\ aCmd' = cmd
  /\ apc' = "enq"
  /\ UNCHANGED <<tcpVars, writerVars, ctrlVars, syncVars, extVars>>

\* Impl::parseAxisFromParams(params) >= 0: std::stoi accepts params[0]
AxisParsed(p0) == p0 \in {"1"}

\* sendAsync: movementCommands.count(cmd) && axis >= 0
IsMovement(cmd, p0) == cmd \in movementCommands /\ AxisParsed(p0)

\* callback-style sendAsync: Writer::enqueue and the catch block
AsyncEnqueue ==
  /\ apc = "enq"
  /\ wStop \/ Len(wq) < WriterMaxQueue
  /\ IF wStop
     THEN /\ removePendingWithException(slotKey[aSlot], "enqueue failed", aSlot)
          /\ cbCount' = [cbCount EXCEPT ![aSlot] = @ + 1]
          /\ cbArg' = [cbArg EXCEPT ![aSlot] = <<"error", "enqueue failed">>]
          /\ apc' = "idle"
          /\ aSlot' = NoSlot
          /\ aCmd' = ""
          /\ UNCHANGED wq
     ELSE /\ wq' = Append(wq, aSlot)
          /\ apc' = IF opCb /\ IsMovement(aCmd, AxisParam) THEN "start" ELSE "post"
          /\ UNCHANGED <<dispVars, cbCount, cbArg, aSlot, aCmd>>
  /\ UNCHANGED <<tcpVars, writer, wStop, wPc, cbWorkerRunning, stopRequested, cbQueue,
                 cbPc, cbTask, detached, nStarts, nStops, stopPc, syncVars, extVars>>

\* callback-style sendAsync: onOperationStart(axis) for a movement command
AsyncOpStart ==
  /\ apc = "start"
  /\ opStarted' = [opStarted EXCEPT ![aSlot] = @ + 1]
  /\ apc' = "post"
  /\ UNCHANGED <<dispVars, tcpVars, writerVars, ctrlVars, syncVars, aSlot, aCmd, mgrVars, pollVars, wrVars, cacheVars, gateVars, parseVars, tcVars,
                 moreVars, opCb, opFinished>>

\* callback-style sendAsync: push the CallbackTask
AsyncPost ==
  /\ apc = "post"
  /\ cbQueue' = Append(cbQueue, aSlot)
  /\ apc' = "idle"
  /\ aSlot' = NoSlot
  /\ aCmd' = ""
  /\ UNCHANGED <<dispVars, tcpVars, writerVars, cbWorkerRunning, stopRequested, cbPc,
                 cbTask, detached, cbCount, cbArg, nStarts, nStops, stopPc, syncVars, extVars>>

\* callback worker: the while condition, evaluated after a task (or at thread
\* start); afterwards the worker is in the body, where cbCv.wait_for times out
\* every 100 ms and the condition is evaluated again
CbTop ==
  /\ cbPc = "top"
  /\ IF stopRequested
     THEN /\ cbPc' = "exit"
          /\ cbWorkerRunning' = FALSE
     ELSE /\ cbPc' = "idle"
          /\ UNCHANGED cbWorkerRunning
  /\ UNCHANGED <<dispVars, tcpVars, writerVars, stopRequested, cbQueue, cbTask, detached,
                 cbCount, cbArg, nStarts, nStops, stopPc, syncVars, asyncVars, extVars>>

\* callback worker inside cbCv.wait_for: a task is queued, take it
CbTake ==
  /\ cbPc = "idle"
  /\ cbQueue # <<>>
  /\ cbTask' = Head(cbQueue)
  /\ cbQueue' = Tail(cbQueue)
  /\ cbPc' = "get"
  /\ UNCHANGED <<dispVars, tcpVars, writerVars, cbWorkerRunning, stopRequested, detached,
                 cbCount, cbArg, nStarts, nStops, stopPc, syncVars, asyncVars, extVars>>

\* callback worker leaves the loop: stopRequested seen by the while condition
\* after a timed-out wait_for, or by the break under cbMtx with an empty queue
CbExit ==
  /\ cbPc = "idle"
  /\ stopRequested
  /\ cbPc' = "exit"
  /\ cbWorkerRunning' = FALSE
  /\ UNCHANGED <<dispVars, tcpVars, writerVars, stopRequested, cbQueue, cbTask, detached,
                 cbCount, cbArg, nStarts, nStops, stopPc, syncVars, asyncVars, extVars>>

\* callback worker: task.fut.get(), then the detached thread for the callback
CbGet ==
  /\ cbPc = "get"
  /\ Ready(cbTask)
  /\ detached' = detached \cup {cbTask}
  /\ cbArg' = [cbArg EXCEPT ![cbTask] = Outcome(cbTask)]
  /\ IF opCb /\ AxisParsed(slotKey[cbTask][2])
     THEN cbPc' = "fin" /\ UNCHANGED cbTask
     ELSE cbPc' = "top" /\ cbTask' = NoSlot
  /\ UNCHANGED <<dispVars, tcpVars, writerVars, cbWorkerRunning, stopRequested, cbQueue,
                 cbCount, nStarts, nStops, stopPc, syncVars, asyncVars, extVars>>

\* callback worker: onOperationFinish(task.axis) when task.axis >= 0
CbFinish ==
  /\ cbPc = "fin"
  /\ opFinished' = [opFinished EXCEPT ![cbTask] = @ + 1]
  /\ cbTask' = NoSlot
  /\ cbPc' = "top"
  /\ UNCHANGED <<dispVars, tcpVars, writerVars, cbWorkerRunning, stopRequested, cbQueue,
                 detached, cbCount, cbArg, nStarts, nStops, stopPc, syncVars, asyncVars,
                 mgrVars, pollVars, wrVars, cacheVars, gateVars, parseVars, tcVars,
                 moreVars, opCb, opStarted>>

\* the detached thread runs the user's callback
RunCallback(s) ==
  /\ s \in detached
  /\ slotOwner[s] = <<"cb">>
  /\ detached' = detached \ {s}
  /\ cbCount' = [cbCount EXCEPT ![s] = @ + 1]
  /\ UNCHANGED <<dispVars, tcpVars, writerVars, cbWorkerRunning, stopRequested, cbQueue,
                 cbPc, cbTask, cbArg, nStarts, nStops, stopPc, syncVars, asyncVars, extVars>>

\* MotorController::stop(): stopRequested.store(true); notify_all.
\* stop() resets Impl::writer without a lock, so callers that are between their
\* writer check and the end of their call are kept out of it (cli_main.cpp
\* calls stop from the thread that issues the commands).
StopRequest ==
  /\ stopPc = "idle"
  /\ nStops < MaxStops
  /\ \A c \in Callers : pc[c] # "enq"
  /\ apc = "idle"
  /\ stopRequested' = TRUE
  /\ stopPc' = "join"
  /\ UNCHANGED <<dispVars, tcpVars, writerVars, cbWorkerRunning, cbQueue, cbPc, cbTask,
                 detached, cbCount, cbArg, nStarts, nStops, syncVars, asyncVars, extVars>>

\* MotorController::stop(): cbWorkerThread.join() returns (if joinable), then
\* writer->stop(true) sets stopRequested_ (if there is a writer)
StopJoinCb ==
  /\ stopPc = "join"
  /\ cbPc \in {"exit", "none"}
  /\ cbPc' = "none"
  /\ cbWorkerRunning' = FALSE
  /\ wStop' = IF writer = "up" THEN TRUE ELSE wStop
  /\ stopPc' = "wjoin"
  /\ UNCHANGED <<dispVars, tcpVars, writer, wq, wPc, stopRequested, cbQueue, cbTask,
                 detached, cbCount, cbArg, nStarts, nStops, syncVars, asyncVars, extVars>>

\* MotorController::stop(): workerThread_.join() returns, writer.reset(), then
\* dispatcher->cancelAllPendingWithException
StopJoinWriter ==
  /\ stopPc = "wjoin"
  /\ writer = "null" \/ wPc = "exit"
  /\ wPc' = "none"
  /\ writer' = "null"
  /\ wq' = <<>>
  /\ cancelAllPendingWithException("MotorController stopped")
  /\ stopPc' = "clear"
  /\ UNCHANGED <<tcpVars, wStop, ctrlVars_noStopPc, syncVars, asyncVars, extVars>>

\* MotorController::stop(): clear the recv handler and the disconnect callback
StopClear ==
  /\ stopPc = "clear"
  /\ recvHandlerSet' = FALSE
  /\ onDisconnectSet' = FALSE
  /\ nStops' = nStops + 1
  /\ stopPc' = "idle"
  /\ UNCHANGED <<dispVars, connected, reading, lineNo, ioPosted, writerVars,
                 cbWorkerRunning, stopRequested, cbQueue, cbPc, cbTask, detached,
                 cbCount, cbArg, nStarts, syncVars, asyncVars, extVars>>

\* ------------------------------------------------------------------ Writer
\* Writer::workerLoop: pop one line and hand it to ITcpClient::sendLine.
\* ok tells whether the write posted by sendLine succeeds on the socket.
WriterSend(ok) ==
  /\ wPc = "run"
  /\ wq # <<>>
  /\ wq' = Tail(wq)
  /\ IF connected
     THEN /\ IF ok
             THEN UNCHANGED <<connected, ioPosted>>
             ELSE /\ connected' = FALSE
                  /\ ioPosted' = IF onDisconnectSet THEN ioPosted + 1 ELSE ioPosted
          /\ UNCHANGED <<dispVars, wStop, wPc>>
     ELSE /\ ok
          /\ cancelAllPendingWithException("Writer error: stopping motor controller")
          /\ wStop' = TRUE
          /\ wPc' = "exit"
          /\ UNCHANGED <<connected, ioPosted>>
  /\ UNCHANGED <<reading, lineNo, recvHandlerSet, onDisconnectSet, writer, ctrlVars,
                 syncVars, asyncVars, extVars>>

\* Writer::workerLoop: queue empty and stopRequested_ -> break
WriterExit ==
  /\ wPc = "run"
  /\ wq = <<>>
  /\ wStop
  /\ wPc' = "exit"
  /\ UNCHANGED <<dispVars, tcpVars, writer, wq, wStop, ctrlVars, syncVars, asyncVars, extVars>>

\* --------------------------------------------------------------- transport
\* asyncReadLine's completion handler with a line, and the recv handler
\* MotorController::start registers
recvLine(cmd, axis) ==
  /\ reading
  /\ lineNo' = lineNo + 1
  /\ LET k == replyKey(cmd, axis) IN
     IF recvHandlerSet
     THEN IF pending[k] # <<>>
          THEN tryFulfillHit(k, lineNo + 1)
          ELSE /\ spont' = Append(spont, lineNo + 1)
               /\ UNCHANGED <<pending, slotKey, slotOwner, slotState, slotVal, slotErr,
                              failedFor, nValue, nError, registered, matched>>
     ELSE UNCHANGED dispVars
  /\ UNCHANGED <<connected, reading, ioPosted, recvHandlerSet, onDisconnectSet,
                 writerVars, ctrlVars, syncVars, asyncVars>>

\* the kinds of reply line by what Parser::parse puts into params: "num" has
\* an integer in params[0] (0 when it is the driving state of STR), "busy" a
\* non-zero driving state, "bare" has no params, "text" has a params[0] that
\* std::stol / std::stoi rejects
LineKinds == {"num", "busy", "bare", "text"}
KindOf(n) == IF \E k \in LineKinds : <<n, k>> \in lineKind
             THEN CHOOSE k \in LineKinds : <<n, k>> \in lineKind
             ELSE "num"

\* !resp.params.empty() and std::stol(resp.params[0]) does not throw
HasNumber(n) == KindOf(n) \in {"num", "busy"}

\* a line whose params[0] is a plain number
RecvLine(cmd, axis) ==
  /\ recvLine(cmd, axis)
  /\ UNCHANGED extVars

\* a line of another kind
RecvLineOf(cmd, axis, kind) ==
  /\ kind \in LineKinds \ {"num"}
  /\ recvLine(cmd, axis)
  /\ lineKind' = lineKind \cup {<<lineNo + 1, kind>>}
  /\ UNCHANGED <<mgrVars, pollVars, sideVars, cPos, cRun, cachePtr, posUpdated, finLogged>>

\* asyncReadLine's completion handler with an error code (EOF, reset)
ReadError ==
  /\ reading
  /\ reading' = FALSE
  /\ connected' = FALSE
  /\ ioPosted' = IF onDisconnectSet THEN ioPosted + 1 ELSE ioPosted
  /\ UNCHANGED <<dispVars, lineNo, recvHandlerSet, onDisconnectSet, writerVars, ctrlVars,
                 syncVars, asyncVars, extVars>>

\* the io thread runs a posted copy of the disconnect callback
RunDisconnectCb ==
  /\ ioPosted > 0
  /\ ioPosted' = ioPosted - 1
  /\ cancelAllPendingWithException(DisconnectMsg)
  /\ UNCHANGED <<connected, reading, lineNo, recvHandlerSet, onDisconnectSet,
                 writerVars, ctrlVars, syncVars, asyncVars, extVars>>

\* ------------------------------------------------------------ KohzuManager
\* The poll-axis list is the constructor's default (empty), so the thread of
\* a started Poller has no axis to schedule.
pipeVars == <<dispVars, tcpVars, writerVars, ctrlVars, syncVars, asyncVars>>

\* the operation a thread works for
ThreadOp(t) == IF t = UserThread THEN nOps ELSE slotOwner[t][2]

\* the request of a kind ("move" | "rdp" | "str") registered for operation o
OpSlot(kind, o) == CHOOSE s \in Slots : slotOwner[s] = <<kind, o>>

\* where a thread is when the manager code it runs has returned
Returned(t) == IF t = UserThread THEN "idle" ELSE "none"

\* a thread called Writer::enqueue through a reset Impl::writer
Crashed == \E t \in Threads : tpc[t] = "crash"

\* Poller::start as far as running_ goes
PollerStart(r) == TRUE

\* a stop that leaves running_ alone
PollerStopSkipped(r) == r

\* Poller::stop as far as running_ goes (the worker is joined before it returns)
PollerStop(r) == FALSE

\* KohzuManager::startAsync
MgrStartAsync ==
  /\ tpc[UserThread] = "idle"
  /\ ~mRunning
  /\ mRunning' = TRUE
  /\ ctPc' = "loop"
  /\ mStopped' = FALSE
  /\ UNCHANGED <<auxVars, pollVars, pipeVars, mConnected, mCtrl, mPoller, pollerRunning, activeOps,
                 autoReconnect, nConnects, tpc, remaining, nOps, accepted,
                 decremented, pendingAtStop>>

\* runConnectLoop: the while condition and connectOnce; ok tells whether
\* ctrl->connect succeeds. A successful connectOnce installs a new client, a
\* new MotorController and a new Poller.
ConnectLoop(ok) ==
  /\ ctPc = "loop"
  /\ ok => mRunning /\ nConnects < MaxConnects
  /\ IF ok
     THEN /\ pending' = [k \in Keys |-> <<>>]
          /\ connected' = TRUE
          /\ reading' = TRUE
          /\ ioPosted' = 0
          /\ recvHandlerSet' = FALSE
          /\ onDisconnectSet' = FALSE
          /\ writer' = "null"
          /\ wq' = <<>>
          /\ wStop' = FALSE
          /\ wPc' = "none"
          /\ cbWorkerRunning' = FALSE
          /\ stopRequested' = FALSE
          /\ cbQueue' = <<>>
          /\ cbPc' = "none"
          /\ cbTask' = NoSlot
          /\ nStarts' = 0
          /\ nStops' = 0
          /\ stopPc' = "idle"
          /\ mCtrl' = "set"
          /\ mPoller' = "set"
          /\ pollerRunning' = FALSE
          /\ nConnects' = nConnects + 1
          /\ ctPc' = "pubOk"
     ELSE /\ ctPc' = IF mRunning THEN "pubFail" ELSE "done"
          /\ UNCHANGED <<pending, connected, reading, ioPosted, recvHandlerSet,
                         onDisconnectSet, writerVars, cbWorkerRunning, stopRequested,
                         cbQueue, cbPc, cbTask, nStarts, nStops, stopPc, mCtrl, mPoller,
                         pollerRunning, nConnects>>
  /\ UNCHANGED <<auxVars, pollVars, slotKey, slotOwner, slotState, slotVal, slotErr, failedFor, nValue,
                 nError, registered, matched, spont, lineNo, detached, cbCount, cbArg,
                 syncVars, asyncVars, mRunning, mConnected, activeOps, autoReconnect,
                 tpc, remaining, nOps, accepted, decremented, mStopped, pendingAtStop>>

\* runConnectLoop: connected_.store(ok), then break or go round again
ConnectPublish ==
  /\ ctPc \in {"pubOk", "pubFail"}
  /\ mConnected' = (ctPc = "pubOk")
  /\ ctPc' = IF ctPc = "pubOk" \/ ~autoReconnect THEN "done" ELSE "loop"
  /\ UNCHANGED <<auxVars, pollVars, pipeVars, mRunning, mCtrl, mPoller, pollerRunning, activeOps,
                 autoReconnect, nConnects, tpc, remaining, nOps, accepted,
                 decremented, mStopped, pendingAtStop>>

\* a gate that looks at the controller only
MoveGateCtrlOnly(conn, ctrl) == IF ctrl = "null" THEN "MotorController not available" ELSE ""

\* moveAbsoluteAsync / moveRelativeAsync: the two early returns; the message
\* given to the callback, "" when the call goes on
MoveGate(conn, ctrl) ==
  IF ~conn THEN "Not connected"
  ELSE IF ctrl = "null" THEN "MotorController not available"
  ELSE ""

\* moveAbsoluteAsync / moveRelativeAsync: the call ends in an early return:
\* the callback gets the error and the call returns false
MgrMoveRefused ==
  /\ tpc[UserThread] = "idle"
  /\ nRefused < MaxRefused
  /\ MoveGate(mConnected, mCtrl) # ""
  /\ nRefused' = nRefused + 1
  /\ refusal' = MoveGate(mConnected, mCtrl)
  /\ UNCHANGED <<wrVars, cacheVars, opVars, parseVars, tcVars, moreVars, pollVars, pipeVars,
                 mgrVars>>

\* moveAbsoluteAsync up to the fetch_add of notifyOperationStarted
MgrMoveBegin ==
  /\ tpc[UserThread] = "idle"
  /\ nOps < MaxOps
  /\ MoveGate(mConnected, mCtrl) = ""
  /\ nOps' = nOps + 1
  /\ activeOps' = activeOps + 1
  /\ tpc' = [tpc EXCEPT ![UserThread] = IF activeOps = 0 THEN "m_poll" ELSE "m_cache"]
  /\ UNCHANGED <<auxVars, pollVars, pipeVars, mRunning, mConnected, mCtrl, mPoller, pollerRunning,
                 autoReconnect, ctPc, nConnects, remaining, accepted, decremented,
                 mStopped, pendingAtStop>>

\* notifyOperationStarted, prev == 0: poller_->start() under pollerMutex_
MgrMovePoller ==
  /\ tpc[UserThread] = "m_poll"
  /\ pollerRunning' = IF mPoller = "set" THEN PollerStart(pollerRunning)
                      ELSE pollerRunning
  /\ tpc' = [tpc EXCEPT ![UserThread] = "m_cache"]
  /\ UNCHANGED <<auxVars, pollVars, pipeVars, mRunning, mConnected, mCtrl, mPoller, activeOps,
                 autoReconnect, ctPc, nConnects, remaining, nOps, accepted,
                 decremented, mStopped, pendingAtStop>>

\* Poller::cache() of the Poller the manager holds: the StateCache it is
\* bound to, or no cache when there is no Poller
getStateCache == IF mPoller = "set" THEN "set" ELSE "null"

\* StateCache::updateRunning
updateRunning(a, r) == cRun' = [cRun EXCEPT ![a] = IF r THEN "true" ELSE "false"]

\* StateCache::updatePosition
updatePosition(a, p) == cPos' = [cPos EXCEPT ![a] = p]

\* moveAbsoluteAsync: poller_->cache().updateRunning(axis, true, "cmd-started")
\* under pollerMutex_, if there is a Poller
MgrMoveCache ==
  /\ tpc[UserThread] = "m_cache"
  /\ IF getStateCache = "set"
     THEN updateRunning(AxisParam, TRUE)
     ELSE UNCHANGED cRun
  /\ tpc' = [tpc EXCEPT ![UserThread] = "m_send"]
  /\ UNCHANGED <<sideVars, cPos, lineKind, cachePtr, posUpdated, finLogged, pollVars, pipeVars,
                 mRunning, mConnected, mCtrl, mPoller, pollerRunning, activeOps,
                 autoReconnect, ctPc, nConnects, remaining, nOps, accepted,
                 decremented, mStopped, pendingAtStop>>

\* moveAbsoluteAsync: ctrl->sendAsync("APS", params, wrapped) up to addPending,
\* or its throw and the catch block's notifyOperationFinished
MgrMoveSend ==
  /\ tpc[UserThread] = "m_send"
  /\ IF writer # "up"
     THEN /\ tpc' = [tpc EXCEPT ![UserThread] = "nf_sub"]
          /\ UNCHANGED dispVars
     ELSE /\ NextSlot <= MaxSlots
          /\ addPending(makeKey("APS", AxisParam), NextSlot, <<"move", nOps>>)
          /\ tpc' = [tpc EXCEPT ![UserThread] = "m_enq"]
  /\ UNCHANGED <<auxVars, pollVars, tcpVars, writerVars, ctrlVars, syncVars, asyncVars, mRunning,
                 mConnected, mCtrl, mPoller, pollerRunning, activeOps, autoReconnect,
                 ctPc, nConnects, remaining, nOps, accepted, decremented, mStopped,
                 pendingAtStop>>

\* sendAsync for the move: Writer::enqueue, then the CallbackTask is pushed and
\* the move returns true; or the catch block, which runs wrapped in the caller
MgrMoveEnqueue ==
  /\ tpc[UserThread] = "m_enq"
  /\ wStop \/ Len(wq) < WriterMaxQueue
  /\ LET s == OpSlot("move", nOps) IN
     IF wStop
     THEN /\ removePendingWithException(slotKey[s], "enqueue failed", s)
          /\ cbCount' = [cbCount EXCEPT ![s] = @ + 1]
          /\ cbArg' = [cbArg EXCEPT ![s] = <<"error", "enqueue failed">>]
          /\ remaining' = [remaining EXCEPT ![nOps] = 2]
          /\ tpc' = [tpc EXCEPT ![UserThread] = "w_rdp"]
          /\ UNCHANGED <<wq, cbQueue>>
     ELSE /\ wq' = Append(wq, s)
          /\ cbQueue' = Append(cbQueue, s)
          /\ tpc' = [tpc EXCEPT ![UserThread] = "idle"]
          /\ UNCHANGED <<dispVars, cbCount, cbArg, remaining>>
  /\ accepted' = [accepted EXCEPT ![nOps] = TRUE]
  /\ UNCHANGED <<auxVars, pollVars, tcpVars, writer, wStop, wPc, cbWorkerRunning, stopRequested, cbPc,
                 cbTask, detached, nStarts, nStops, stopPc, syncVars, asyncVars,
                 mRunning, mConnected, mCtrl, mPoller, pollerRunning, activeOps,
                 autoReconnect, ctPc, nConnects, nOps, decremented, mStopped,
                 pendingAtStop>>

\* the detached thread of a move runs wrapped: the user's callback, then
\* getMotorController and either dispatchFinalReads (up to cachePtr) or
\* notifyOperationFinished
MgrRunWrapped(s) ==
  /\ s \in detached
  /\ slotOwner[s][1] = "move"
  /\ detached' = detached \ {s}
  /\ cbCount' = [cbCount EXCEPT ![s] = @ + 1]
  /\ IF mCtrl = "set"
     THEN /\ remaining' = [remaining EXCEPT ![slotOwner[s][2]] = 2]
          /\ cachePtr' = [cachePtr EXCEPT ![slotOwner[s][2]] = getStateCache]
          /\ tpc' = [tpc EXCEPT ![s] = "w_rdp"]
     ELSE /\ tpc' = [tpc EXCEPT ![s] = "nf_sub"]
          /\ UNCHANGED <<remaining, cachePtr>>
  /\ UNCHANGED <<sideVars, cPos, cRun, lineKind, posUpdated, finLogged, pollVars, dispVars, tcpVars, writerVars, cbWorkerRunning, stopRequested, cbQueue,
                 cbPc, cbTask, cbArg, nStarts, nStops, stopPc, syncVars, asyncVars,
                 mRunning, mConnected, mCtrl, mPoller, pollerRunning, activeOps,
                 autoReconnect, ctPc, nConnects, nOps, accepted, decremented, mStopped,
                 pendingAtStop>>

\* the final read a thread in dispatchFinalReads is at
ReadKind(t) == IF tpc[t] \in {"w_rdp", "w_rdpEnq"} THEN "rdp" ELSE "str"
ReadCmd(t) == IF ReadKind(t) = "rdp" THEN "RDP" ELSE "STR"

\* where a thread goes after one of the two reads was sent or failed;
\* last tells whether this thread took the shared counter from 1 to 0
AfterRead(t, last) ==
  IF ReadKind(t) = "rdp" THEN "w_str"
  ELSE IF last THEN "nf_sub" ELSE Returned(t)

\* dispatchFinalReads: ctrl->sendAsync(cmd, {axis}, cb) up to addPending, or its
\* throw and the catch block's fetch_sub
MgrFinalRead(t) ==
  /\ tpc[t] \in {"w_rdp", "w_str"}
  /\ LET o == ThreadOp(t) IN
     IF writer # "up"
     THEN /\ remaining' = [remaining EXCEPT ![o] = @ - 1]
          /\ tpc' = [tpc EXCEPT ![t] = AfterRead(t, remaining[o] = 1)]
          /\ UNCHANGED dispVars
     ELSE /\ NextSlot <= MaxSlots
          /\ addPending(makeKey(ReadCmd(t), AxisParam), NextSlot, <<ReadKind(t), o>>)
          /\ tpc' = [tpc EXCEPT ![t] = IF ReadKind(t) = "rdp" THEN "w_rdpEnq"
                                       ELSE "w_strEnq"]
          /\ UNCHANGED remaining
  /\ UNCHANGED <<auxVars, pollVars, tcpVars, writerVars, ctrlVars, syncVars, asyncVars, mRunning,
                 mConnected, mCtrl, mPoller, pollerRunning, activeOps, autoReconnect,
                 ctPc, nConnects, nOps, accepted, decremented, mStopped, pendingAtStop>>

\* sendAsync for a final read: Writer::enqueue and the push of the
\* CallbackTask, or the catch block, which runs the read's callback in the
\* caller. MotorController::stop() may have reset Impl::writer since the check.
MgrFinalEnqueue(t) ==
  /\ tpc[t] \in {"w_rdpEnq", "w_strEnq"}
  /\ LET o == ThreadOp(t)
         s == OpSlot(ReadKind(t), o) IN
     IF writer = "null"
     THEN /\ tpc' = [tpc EXCEPT ![t] = "crash"]
          /\ UNCHANGED <<dispVars, wq, cbQueue, cbCount, cbArg, remaining>>
     ELSE /\ wStop \/ Len(wq) < WriterMaxQueue
          /\ IF wStop
             THEN /\ removePendingWithException(slotKey[s], "enqueue failed", s)
                  /\ cbCount' = [cbCount EXCEPT ![s] = @ + 1]
                  /\ cbArg' = [cbArg EXCEPT ![s] = <<"error", "enqueue failed">>]
                  /\ remaining' = [remaining EXCEPT ![o] = @ - 1]
                  /\ tpc' = [tpc EXCEPT ![t] = AfterRead(t, remaining[o] = 1)]
                  /\ UNCHANGED <<wq, cbQueue>>
             ELSE /\ wq' = Append(wq, s)
                  /\ cbQueue' = Append(cbQueue, s)
                  /\ tpc' = [tpc EXCEPT ![t] = AfterRead(t, FALSE)]
                  /\ UNCHANGED <<dispVars, cbCount, cbArg, remaining>>
  /\ UNCHANGED <<auxVars, pollVars, tcpVars, writer, wStop, wPc, cbWorkerRunning, stopRequested, cbPc,
                 cbTask, detached, nStarts, nStops, stopPc, syncVars, asyncVars,
                 mRunning, mConnected, mCtrl, mPoller, pollerRunning, activeOps,
                 autoReconnect, ctPc, nConnects, nOps, accepted, decremented, mStopped,
                 pendingAtStop>>

\* the detached thread of a final read runs rdpCb / strCb: the update of the
\* StateCache when the reply has a number in params[0] and cachePtr is not
\* null, the fetch_sub on the shared counter, and finalDone when it was the
\* last
MgrRunFinalCb(s) ==
  /\ s \in detached
  /\ slotOwner[s][1] \in {"rdp", "str"}
  /\ detached' = detached \ {s}
  /\ cbCount' = [cbCount EXCEPT ![s] = @ + 1]
  /\ LET o == slotOwner[s][2]
         stored == /\ cbArg[s][1] = "reply"
                   /\ HasNumber(cbArg[s][2])
                   /\ cachePtr[o] = "set" IN
     /\ IF stored /\ slotOwner[s][1] = "rdp"
        THEN updatePosition(AxisParam, cbArg[s][2])
        ELSE UNCHANGED cPos
     /\ IF stored /\ slotOwner[s][1] = "str"
        THEN updateRunning(AxisParam, KindOf(cbArg[s][2]) = "busy")
        ELSE UNCHANGED cRun
     /\ remaining' = [remaining EXCEPT ![o] = @ - 1]
     /\ tpc' = [tpc EXCEPT ![s] = IF remaining[o] = 1 THEN "nf_sub" ELSE "none"]
  /\ UNCHANGED <<sideVars, lineKind, cachePtr, posUpdated, finLogged, pollVars, dispVars, tcpVars, writerVars, cbWorkerRunning, stopRequested, cbQueue,
                 cbPc, cbTask, cbArg, nStarts, nStops, stopPc, syncVars, asyncVars,
                 mRunning, mConnected, mCtrl, mPoller, pollerRunning, activeOps,
                 autoReconnect, ctPc, nConnects, nOps, accepted, decremented, mStopped,
                 pendingAtStop>>

\* notifyOperationFinished: activeOperations_.fetch_sub(1)
NotifyFinishedSub(t) ==
  /\ tpc[t] = "nf_sub"
  /\ activeOps' = activeOps - 1
  /\ decremented' = [decremented EXCEPT ![ThreadOp(t)] = @ + 1]
  /\ tpc' = [tpc EXCEPT ![t] = IF activeOps - 1 <= 0 THEN "nf_store" ELSE Returned(t)]
  /\ UNCHANGED <<auxVars, pollVars, pipeVars, mRunning, mConnected, mCtrl, mPoller, pollerRunning,
                 autoReconnect, ctPc, nConnects, remaining, nOps, accepted, mStopped,
                 pendingAtStop>>

\* notifyOperationFinished, now <= 0: activeOperations_.store(0)
NotifyFinishedStore(t) ==
  /\ tpc[t] = "nf_store"
  /\ activeOps' = 0
  /\ tpc' = [tpc EXCEPT ![t] = "nf_stop"]
  /\ UNCHANGED <<auxVars, pollVars, pipeVars, mRunning, mConnected, mCtrl, mPoller, pollerRunning,
                 autoReconnect, ctPc, nConnects, remaining, nOps, accepted,
                 decremented, mStopped, pendingAtStop>>

\* notifyOperationFinished, now <= 0: poller_->stop() under pollerMutex_
NotifyFinishedStop(t) ==
  /\ tpc[t] = "nf_stop"
  /\ pollerRunning' = IF mPoller = "set" THEN PollerStop(pollerRunning)
                      ELSE pollerRunning
  /\ tpc' = [tpc EXCEPT ![t] = Returned(t)]
  /\ UNCHANGED <<auxVars, pollVars, pipeVars, mRunning, mConnected, mCtrl, mPoller, activeOps,
                 autoReconnect, ctPc, nConnects, remaining, nOps, accepted,
                 decremented, mStopped, pendingAtStop>>

\* KohzuManager::stop(): running_ goes to false
MgrStopBegin ==
  /\ tpc[UserThread] = "idle"
  /\ ~mStopped
  /\ mRunning' = FALSE
  /\ pendingAtStop' = InMap
  /\ tpc' = [tpc EXCEPT ![UserThread] = "s_join"]
  /\ UNCHANGED <<auxVars, pollVars, pipeVars, mConnected, mCtrl, mPoller, pollerRunning, activeOps,
                 autoReconnect, ctPc, nConnects, remaining, nOps, accepted,
                 decremented, mStopped>>

\* KohzuManager::stop(): connectThread_.join() returns (if joinable)
MgrStopJoin ==
  /\ tpc[UserThread] = "s_join"
  /\ ctPc \in {"none", "done"}
  /\ ctPc' = "none"
  /\ tpc' = [tpc EXCEPT ![UserThread] = "s_poller"]
  /\ UNCHANGED <<auxVars, pollVars, pipeVars, mRunning, mConnected, mCtrl, mPoller, pollerRunning,
                 activeOps, autoReconnect, nConnects, remaining, nOps, accepted,
                 decremented, mStopped, pendingAtStop>>

\* KohzuManager::stop(): poller_->stop(); poller_.reset() under pollerMutex_
MgrStopPoller ==
  /\ tpc[UserThread] = "s_poller"
  /\ pollerRunning' = IF mPoller = "set" THEN PollerStop(pollerRunning)
                      ELSE pollerRunning
  /\ mPoller' = "null"
  /\ tpc' = [tpc EXCEPT ![UserThread] = "s_ctrl"]
  /\ UNCHANGED <<auxVars, pollVars, pipeVars, mRunning, mConnected, mCtrl, activeOps, autoReconnect,
                 ctPc, nConnects, remaining, nOps, accepted, decremented, mStopped,
                 pendingAtStop>>

\* KohzuManager::stop(): motorCtrl_->stop() has returned (or there is no
\* controller); motorCtrl_ and tcpClient_ are reset, which ends the client's
\* io thread, and connected_ goes to false
MgrStopReset ==
  /\ tpc[UserThread] = "s_ctrl"
  /\ mCtrl = "null" \/ (nStops > 0 /\ stopPc = "idle")
  /\ mCtrl' = "null"
  /\ mConnected' = FALSE
  /\ connected' = FALSE
  /\ reading' = FALSE
  /\ ioPosted' = 0
  /\ mStopped' = TRUE
  /\ tpc' = [tpc EXCEPT ![UserThread] = "idle"]
  /\ UNCHANGED <<auxVars, pollVars, dispVars, lineNo, recvHandlerSet, onDisconnectSet, writerVars,
                 ctrlVars, syncVars, asyncVars, mRunning, mPoller, pollerRunning,
                 activeOps, autoReconnect, ctPc, nConnects, remaining, nOps, accepted,
                 decremented, pendingAtStop>>

\* ------------------------------------------------------------------ Poller
\* inflightMtx_ is free. Every critical section on it is one step, so it stays
\* locked only when the thread in runLoop blocks on it while owning it.
InflightFree == ppc # "stuck"

\* the thread in runLoop has ended the process (an exception left runLoop)
PollAborted == ppc = "abort"

\* the axes whose future in inflightRdp_ is ready
ReadyInflight == {a \in Axes : inflightRdp[a] # NoSlot /\ Ready(inflightRdp[a])}

\* the requests scheduleRdp has issued for an axis
PollerIssued(a) == {s \in Slots : slotOwner[s] = <<"poll", a>>}

\* Poller::start()
PollerStartCall ==
  /\ upc = "idle"
  /\ ~pollerRunning
  /\ ppc = "none"
  /\ pollerRunning' = PollerStart(pollerRunning)
  /\ ppc' = "top"
  /\ UNCHANGED <<auxVars, pipeVars, mgrVars_noRunning, axesOrder, lastPolled, activeAxes,
                 inflightRdp, pSnap, pFut, pAxes, upc, uAxis, uSlot>>

\* Poller::stop(): running_ = false under mtx_
PollerStopCall ==
  /\ upc = "idle"
  /\ pollerRunning
  /\ pollerRunning' = PollerStop(pollerRunning)
  /\ upc' = "st_join"
  /\ UNCHANGED <<auxVars, pipeVars, mgrVars_noRunning, axesOrder, lastPolled, activeAxes,
                 inflightRdp, ppc, pSnap, pFut, pAxes, uAxis, uSlot>>

\* Poller::stop(): worker_.join() returns
PollerStopJoin ==
  /\ upc = "st_join"
  /\ ppc = "exit"
  /\ ppc' = "none"
  /\ upc' = "st_clear"
  /\ UNCHANGED <<auxVars, pipeVars, mgrVars, axesOrder, lastPolled, activeAxes, inflightRdp,
                 pSnap, pFut, pAxes, uAxis, uSlot>>

\* Poller::stop(): inflightRdp_.clear()
PollerStopClear ==
  /\ upc = "st_clear"
  /\ InflightFree
  /\ inflightRdp' = [a \in Axes |-> NoSlot]
  /\ upc' = "idle"
  /\ UNCHANGED <<auxVars, pipeVars, mgrVars, axesOrder, lastPolled, activeAxes, ppc, pSnap,
                 pFut, pAxes, uAxis, uSlot>>

\* Poller::setAxes
PollerSetAxes(axes) ==
  /\ upc = "idle"
  /\ axesOrder # axes
  /\ axesOrder' = axes
  /\ lastPolled' = lastPolled \cup SeqToSet(axes)
  /\ UNCHANGED <<auxVars, pipeVars, mgrVars, activeAxes, inflightRdp, ppc, pSnap, pFut, pAxes,
                 upc, uAxis, uSlot>>

\* Poller::addAxis
addAxis(a) ==
  /\ upc = "idle"
  /\ a \notin SeqToSet(axesOrder)
  /\ axesOrder' = Append(axesOrder, a)
  /\ lastPolled' = lastPolled \cup {a}
  /\ UNCHANGED <<auxLess, pipeVars, mgrVars, activeAxes, inflightRdp, ppc, pSnap, pFut, pAxes,
                 upc, uAxis, uSlot>>

PollerAddAxis(a) == addAxis(a) /\ UNCHANGED axVars

\* Poller::addAxis, with the histories
TrackAdded(a) ==
  /\ addAxis(a)
  /\ removed' = [removed EXCEPT ![a] = FALSE]
  /\ UNCHANGED opsOut

\* Poller::removeAxis: the block under axesMtx_
PollerRemoveAxis(a) ==
  /\ upc = "idle"
  /\ a \in SeqToSet(axesOrder) \/ inflightRdp[a] # NoSlot \/ a \in activeAxes
  /\ axesOrder' = SelectSeq(axesOrder, LAMBDA x : x # a)
  /\ lastPolled' = lastPolled \ {a}
  /\ upc' = "ra_inflight"
  /\ uAxis' = a
  /\ UNCHANGED <<auxVars, pipeVars, mgrVars, activeAxes, inflightRdp, ppc, pSnap, pFut, pAxes,
                 uSlot>>

\* Poller::removeAxis: the block under inflightMtx_
PollerRemoveInflight ==
  /\ upc = "ra_inflight"
  /\ InflightFree
  /\ inflightRdp' = [inflightRdp EXCEPT ![uAxis] = NoSlot]
  /\ upc' = "ra_active"
  /\ UNCHANGED <<auxVars, pipeVars, mgrVars, axesOrder, lastPolled, activeAxes, ppc, pSnap,
                 pFut, pAxes, uAxis, uSlot>>

\* Poller::removeAxis: the block under activeMtx_
removeActive ==
  /\ upc = "ra_active"
  /\ activeAxes' = activeAxes \ {uAxis}
  /\ upc' = "idle"
  /\ uAxis' = ""
  /\ UNCHANGED <<auxLess, pipeVars, mgrVars, axesOrder, lastPolled, inflightRdp, ppc, pSnap,
                 pFut, pAxes, uSlot>>

PollerRemoveActive == removeActive /\ UNCHANGED axVars

\* Poller::removeAxis returns, with the histories
TrackRemoved ==
  /\ removeActive
  /\ removed' = [removed EXCEPT ![uAxis] = TRUE]
  /\ UNCHANGED opsOut

\* Poller::notifyOperationStarted up to the call of scheduleRdp
notifyOperationStarted(a) ==
  /\ upc = "idle"
  /\ Cardinality(PollerIssued(a)) < MaxPollReqs
  /\ activeAxes' = activeAxes \cup {a}
  /\ upc' = "sr_check"
  /\ uAxis' = a
  /\ UNCHANGED <<auxLess, pipeVars, mgrVars, axesOrder, lastPolled, inflightRdp, ppc, pSnap,
                 pFut, pAxes, uSlot>>

PollerNotifyStarted(a) == notifyOperationStarted(a) /\ UNCHANGED axVars

\* Poller::notifyOperationStarted for one more operation on the axis
TrackStarted(a) ==
  /\ opsOut[a] < MaxOverlap
  /\ notifyOperationStarted(a)
  /\ opsOut' = [opsOut EXCEPT ![a] = @ + 1]
  /\ UNCHANGED removed

\* scheduleRdp: if (inflightRdp_.count(axis)) return
SchedCheck ==
  /\ upc = "sr_check"
  /\ InflightFree
  /\ IF inflightRdp[uAxis] # NoSlot
     THEN upc' = "idle" /\ uAxis' = ""
     ELSE upc' = "sr_send" /\ UNCHANGED uAxis
  /\ UNCHANGED <<auxVars, pipeVars, mgrVars, axesOrder, lastPolled, activeAxes, inflightRdp,
                 ppc, pSnap, pFut, pAxes, uSlot>>

\* scheduleRdp: the future-style sendAsync("RDP", {axis}) up to addPending, or
\* its throw, which scheduleRdp catches
SchedSend ==
  /\ upc = "sr_send"
  /\ IF writer # "up"
     THEN /\ upc' = "idle"
          /\ uAxis' = ""
          /\ UNCHANGED <<dispVars, uSlot>>
     ELSE /\ NextSlot <= MaxSlots
          /\ addPending(makeKey("RDP", uAxis), NextSlot, <<"poll", uAxis>>)
          /\ uSlot' = NextSlot
          /\ upc' = "sr_enq"
          /\ UNCHANGED uAxis
  /\ UNCHANGED <<auxVars, tcpVars, writerVars, ctrlVars, syncVars, asyncVars, mgrVars,
                 axesOrder, lastPolled, activeAxes, inflightRdp, ppc, pSnap, pFut,
                 pAxes>>

\* the future-style sendAsync: Writer::enqueue, or the catch block and the
\* rethrow, which scheduleRdp catches
SchedEnqueue ==
  /\ upc = "sr_enq"
  /\ wStop \/ Len(wq) < WriterMaxQueue
  /\ IF wStop
     THEN /\ removePendingWithException(slotKey[uSlot], "enqueue failed", uSlot)
          /\ upc' = "idle"
          /\ uAxis' = ""
          /\ uSlot' = NoSlot
          /\ UNCHANGED wq
     ELSE /\ wq' = Append(wq, uSlot)
          /\ upc' = "sr_emplace"
          /\ UNCHANGED <<dispVars, uAxis, uSlot>>
  /\ UNCHANGED <<auxVars, tcpVars, writer, wStop, wPc, ctrlVars, syncVars, asyncVars, mgrVars,
                 axesOrder, lastPolled, activeAxes, inflightRdp, ppc, pSnap, pFut,
                 pAxes>>

\* scheduleRdp: inflightRdp_.emplace(axis, std::move(fut)), which keeps an
\* entry that is already there
SchedEmplace ==
  /\ upc = "sr_emplace"
  /\ InflightFree
  /\ inflightRdp' = IF inflightRdp[uAxis] = NoSlot
                    THEN [inflightRdp EXCEPT ![uAxis] = uSlot]
                    ELSE inflightRdp
  /\ upc' = "idle"
  /\ uAxis' = ""
  /\ uSlot' = NoSlot
  /\ UNCHANGED <<auxVars, pipeVars, mgrVars, axesOrder, lastPolled, activeAxes, ppc, pSnap,
                 pFut, pAxes>>

\* Poller::notifyOperationFinished: the block under activeMtx_
notifyOperationFinished(a) ==
  /\ upc = "idle"
  /\ pc[PollCaller] = "idle"
  /\ Cardinality({s \in Slots : slotOwner[s][1] = "sync"}) + 2 <= MaxSyncCalls
  /\ activeAxes' = activeAxes \ {a}
  /\ upc' = "fin_rdp"
  /\ uAxis' = a
  /\ posUpdated' = [posUpdated EXCEPT ![a] = FALSE]
  /\ finLogged' = FALSE
  /\ UNCHANGED <<sideLess, cPos, cRun, lineKind, cachePtr, pipeVars, mgrVars, axesOrder, lastPolled, inflightRdp, ppc, pSnap,
                 pFut, pAxes, uSlot>>

PollerNotifyFinished(a) == notifyOperationFinished(a) /\ UNCHANGED axVars

\* Poller::notifyOperationFinished for one of the operations under way
TrackFinished(a) ==
  /\ opsOut[a] > 0
  /\ notifyOperationFinished(a)
  /\ opsOut' = [opsOut EXCEPT ![a] = @ - 1]
  /\ UNCHANGED removed

\* Poller::notifyOperationFinished: motor_->sendSync("RDP" / "STR", {axis}, t)
\* is called; a throw of sendSync is caught and written to std::cerr
PollerFinalRead ==
  /\ upc \in {"fin_rdp", "fin_str"}
  /\ pc[PollCaller] = "idle"
  /\ IF writer # "up"
     THEN /\ finLogged' = TRUE
          /\ UNCHANGED pipeVars
     ELSE /\ sendSyncBegin(PollCaller, IF upc = "fin_rdp" THEN "RDP" ELSE "STR")
          /\ UNCHANGED finLogged
  /\ upc' = IF upc = "fin_rdp" THEN "fin_str" ELSE "fin_erase"
  /\ UNCHANGED <<sideVars, cPos, cRun, lineKind, cachePtr, posUpdated, mgrVars, axesOrder,
                 lastPolled, activeAxes, inflightRdp, ppc, pSnap, pFut, pAxes, uAxis,
                 uSlot>>

\* the final read whose sendSync call is under way
FinalReadCmd == IF upc = "fin_str" THEN "RDP" ELSE "STR"

\* notifyOperationFinished: Writer::enqueue inside sendSync; its throw is
\* rethrown by sendSync, caught and written to std::cerr
PollSyncEnqueue ==
  /\ syncEnqueue(PollCaller)
  /\ finLogged' = (finLogged \/ wStop)
  /\ UNCHANGED <<sideVars, cPos, cRun, lineKind, cachePtr, posUpdated, mgrVars, pollVars>>

\* notifyOperationFinished: sendSync returns the reply, or throws what the
\* promise holds. A reply with a number in params[0] goes to updatePosition /
\* updateRunning; an RDP reply without one updates no position (updateRaw at
\* most); an STR reply whose params[0] is not a number stores running = false.
PollSyncReturn ==
  /\ syncReturn(PollCaller)
  /\ LET s == mySlot[PollCaller]
         n == slotVal[s] IN
     IF slotState[s] = "value"
     THEN /\ IF FinalReadCmd = "RDP" /\ HasNumber(n)
             THEN /\ updatePosition(uAxis, n)
                  /\ posUpdated' = [posUpdated EXCEPT ![uAxis] = TRUE]
             ELSE UNCHANGED <<cPos, posUpdated>>
          /\ IF FinalReadCmd = "STR" /\ KindOf(n) # "bare"
             THEN updateRunning(uAxis, KindOf(n) = "busy")
             ELSE UNCHANGED cRun
          /\ UNCHANGED finLogged
     ELSE /\ finLogged' = TRUE
          /\ UNCHANGED <<cPos, cRun, posUpdated>>
  /\ UNCHANGED <<sideVars, lineKind, cachePtr, mgrVars, pollVars>>

\* notifyOperationFinished: sendSync throws after the timeout; the exception
\* is caught and written to std::cerr
PollSyncTimeoutRemove ==
  /\ syncTimeoutRemove(PollCaller)
  /\ finLogged' = TRUE
  /\ UNCHANGED <<sideVars, cPos, cRun, lineKind, cachePtr, posUpdated, mgrVars, pollVars>>

\* Poller::notifyOperationFinished: inflightRdp_.erase(axis)
PollerFinishedErase ==
  /\ upc = "fin_erase"
  /\ pc[PollCaller] = "idle"
  /\ InflightFree
  /\ inflightRdp' = [inflightRdp EXCEPT ![uAxis] = NoSlot]
  /\ upc' = "idle"
  /\ uAxis' = ""
  /\ UNCHANGED <<auxVars, pipeVars, mgrVars, axesOrder, lastPolled, activeAxes, ppc, pSnap,
                 pFut, pAxes, uSlot>>

\* runLoop: if (!running_) break, under mtx_
PollTop ==
  /\ ppc = "top"
  /\ ppc' = IF pollerRunning THEN "snap" ELSE "fsnap"
  /\ UNCHANGED <<auxVars, pipeVars, mgrVars, axesOrder, lastPolled, activeAxes, inflightRdp,
                 pSnap, pFut, pAxes, upc, uAxis, uSlot>>

\* handleCompletedInflight: the snapshot of the ready futures
PollSnapshot ==
  /\ ppc \in {"snap", "fsnap"}
  /\ InflightFree
  /\ pSnap' = ReadyInflight
  /\ ppc' = IF ppc = "snap" THEN "take" ELSE "ftake"
  /\ UNCHANGED <<auxVars, pipeVars, mgrVars, axesOrder, lastPolled, activeAxes, inflightRdp,
                 pFut, pAxes, upc, uAxis, uSlot>>

\* handleCompletedInflight: one round of the loop over finished, up to fut.get()
PollTake ==
  /\ ppc \in {"take", "ftake"}
  /\ IF pSnap = {}
     THEN /\ ppc' = IF ppc = "take" THEN "axes" ELSE "exit"
          /\ UNCHANGED <<pSnap, pFut, inflightRdp>>
     ELSE /\ InflightFree
          /\ \E a \in pSnap :
               /\ pSnap' = pSnap \ {a}
               /\ IF inflightRdp[a] = NoSlot
                  THEN UNCHANGED <<ppc, pFut, inflightRdp>>
                  ELSE /\ pFut' = inflightRdp[a]
                       /\ inflightRdp' = [inflightRdp EXCEPT ![a] = NoSlot]
                       /\ ppc' = IF ppc = "take" THEN "get" ELSE "fget"
  /\ UNCHANGED <<auxVars, pipeVars, mgrVars, axesOrder, lastPolled, activeAxes, pAxes, upc,
                 uAxis, uSlot>>

\* handleCompletedInflight: fut.get() returns or throws; a reply with a number
\* in params[0] goes to updatePosition
PollGet ==
  /\ ppc \in {"get", "fget"}
  /\ Ready(pFut)
  /\ LET a == slotOwner[pFut][2] IN
     IF slotState[pFut] = "value" /\ HasNumber(slotVal[pFut])
     THEN /\ updatePosition(a, slotVal[pFut])
          /\ posUpdated' = [posUpdated EXCEPT ![a] = TRUE]
     ELSE UNCHANGED <<cPos, posUpdated>>
  /\ pFut' = NoSlot
  /\ ppc' = IF ppc = "get" THEN "take" ELSE "ftake"
  /\ UNCHANGED <<sideVars, cRun, lineKind, cachePtr, finLogged, pipeVars, mgrVars, axesOrder, lastPolled, activeAxes, inflightRdp,
                 pSnap, pAxes, upc, uAxis, uSlot>>

\* runLoop: axesCopy = axesOrder_
PollAxes ==
  /\ ppc = "axes"
  /\ pAxes' = axesOrder
  /\ ppc' = "visit"
  /\ UNCHANGED <<auxVars, pipeVars, mgrVars, axesOrder, lastPolled, activeAxes, inflightRdp,
                 pSnap, pFut, upc, uAxis, uSlot>>

\* runLoop: one round of the loop over axesCopy. due tells whether the
\* interval of the axis has elapsed (it has when lastPolled_ has no entry).
\* With no future in flight the thread calls scheduleRdp while it owns
\* inflightMtx_, and scheduleRdp locks inflightMtx_: the thread blocks on its
\* own mutex for good, or the lock throws and the exception leaves runLoop.
PollVisit(due, ub) ==
  /\ ppc = "visit"
  /\ IF pAxes = <<>>
     THEN /\ ~due
          /\ ub = "stuck"
          /\ ppc' = "sleep"
          /\ UNCHANGED pAxes
     ELSE LET a == Head(pAxes) IN
          /\ pAxes' = Tail(pAxes)
          /\ a \notin lastPolled => due
          /\ IF due /\ inflightRdp[a] = NoSlot
             THEN ppc' = ub
             ELSE ub = "stuck" /\ UNCHANGED ppc
  /\ UNCHANGED <<auxVars, pipeVars, mgrVars, axesOrder, lastPolled, activeAxes, inflightRdp,
                 pSnap, pFut, upc, uAxis, uSlot>>

\* runLoop: cv_.wait_for returns
PollSleep ==
  /\ ppc = "sleep"
  /\ ppc' = "top"
  /\ UNCHANGED <<auxVars, pipeVars, mgrVars, axesOrder, lastPolled, activeAxes, inflightRdp,
                 pSnap, pFut, pAxes, upc, uAxis, uSlot>>

\* ------------------------------------------------------------------- Next
Lifecycle ==
  \/ CtrlStart
  \/ StopRequest
  \/ StopJoinCb
  \/ StopJoinWriter
  \/ StopClear

CbWorker ==
  \/ CbTop
  \/ CbTake
  \/ CbExit
  \/ CbGet
  \/ \E s \in Slots : RunCallback(s)

WriterWorker ==
  \/ \E ok \in BOOLEAN : WriterSend(ok)
  \/ WriterExit

\* the device sends a line, asked for or not
DeviceLine ==
  \E cmd \in SyncCmds \cup CbCmds :
    /\ lineNo < MaxLines
    /\ RecvLine(cmd, AxisParam)

IoThread ==
  \/ DeviceLine
  \/ ReadError
  \/ RunDisconnectCb

SyncCaller ==
  \/ \E c \in Callers, cmd \in SyncCmds : SendSyncBegin(c, cmd)
  \/ \E c \in Callers : SyncEnqueue(c)
  \/ \E c \in Callers : SyncReturn(c)
  \/ \E c \in Callers : SyncTimeout(c)
  \/ \E c \in Callers : SyncTimeoutRemove(c)

CbCaller ==
  \/ \E cmd \in CbCmds : SendAsyncCbBegin(cmd)
  \/ AsyncEnqueue
  \/ AsyncPost

\* sendSync callers against a started controller
Next ==
  \/ CtrlStart
  \/ \E ok \in BOOLEAN : WriterSend(ok)
  \/ IoThread
  \/ SyncCaller

Spec == Init /\ [][Next]_vars

\* callback-style requests against a started controller
NextCb ==
  \/ Lifecycle
  \/ CbWorker
  \/ WriterWorker
  \/ IoThread
  \/ CbCaller

SpecCb == Init /\ [][NextCb]_vars

\* the thread that calls the manager starts the controller it got from
\* getMotorController()
MgrCtrlStart ==
  /\ tpc[UserThread] = "idle"
  /\ mCtrl = "set"
  /\ CtrlStart

\* KohzuManager::stop(): motorCtrl_->stop()
MgrCtrlStop ==
  /\ tpc[UserThread] = "s_ctrl"
  /\ mCtrl = "set"
  /\ nStops = 0
  /\ \/ StopRequest
     \/ StopJoinCb
     \/ StopJoinWriter
     \/ StopClear

\* the device answers requests that are waiting for a reply
ReplyLine ==
  \E cmd \in AllCmds :
    /\ pending[makeKey(cmd, AxisParam)] # <<>>
    /\ RecvLine(cmd, AxisParam)

ConnectThread ==
  \/ \E ok \in BOOLEAN : ConnectLoop(ok)
  \/ ConnectPublish

\* the first movement command
MgrMoveFirst ==
  /\ nOps = 0
  /\ MgrMoveBegin

MgrStop ==
  \/ MgrStopBegin
  \/ MgrStopJoin
  \/ MgrStopPoller
  \/ MgrCtrlStop
  \/ MgrStopReset

MgrCallbacks ==
  \/ \E s \in Slots : MgrRunWrapped(s)
  \/ \E s \in Slots : MgrRunFinalCb(s)
  \/ \E t \in Threads : MgrFinalRead(t)
  \/ \E t \in Threads : MgrFinalEnqueue(t)
  \/ \E t \in Threads : NotifyFinishedSub(t)
  \/ \E t \in Threads : NotifyFinishedStore(t)
  \/ \E t \in Threads : NotifyFinishedStop(t)

\* concurrent movement commands through a KohzuManager whose connection
\* stays up and which is not stopped
NextMgr ==
  \/ ConnectThread
  \/ MgrStartAsync
  \/ MgrCtrlStart
  \/ MgrMoveBegin
  \/ MgrMovePoller
  \/ MgrMoveCache
  \/ MgrMoveSend
  \/ MgrMoveEnqueue
  \/ MgrCallbacks
  \/ CbTop
  \/ CbTake
  \/ CbGet
  \/ WriterSend(TRUE)
  \/ ReplyLine

SpecMgr == InitMgr /\ [][NextMgr]_vars

\* one movement command through a KohzuManager, and KohzuManager::stop()
NextMgrStop ==
  \/ ConnectThread
  \/ MgrStartAsync
  \/ MgrCtrlStart
  \/ MgrMoveFirst
  \/ MgrMovePoller
  \/ MgrMoveCache
  \/ MgrMoveSend
  \/ MgrMoveEnqueue
  \/ MgrStop
  \/ MgrCallbacks
  \/ CbTop
  \/ CbTake
  \/ CbExit
  \/ CbGet
  \/ WriterWorker
  \/ ReplyLine
  \/ ReadError
  \/ RunDisconnectCb

SpecMgrStop == InitMgr /\ [][NextMgrStop]_vars

PollerUser ==
  \/ PollerStartCall
  \/ PollerStopCall
  \/ PollerStopJoin
  \/ PollerStopClear
  \/ \E axes \in {<<>>, <<AxisParam>>} : PollerSetAxes(axes)
  \/ \E a \in Axes : PollerAddAxis(a)
  \/ \E a \in Axes : PollerRemoveAxis(a)
  \/ PollerRemoveInflight
  \/ PollerRemoveActive
  \/ \E a \in Axes : PollerNotifyStarted(a)
  \/ SchedCheck
  \/ SchedSend
  \/ SchedEnqueue
  \/ SchedEmplace
  \/ \E a \in Axes : PollerNotifyFinished(a)
  \/ PollerFinalRead
  \/ PollerFinishedErase

PollThread ==
  \/ PollTop
  \/ PollSnapshot
  \/ PollTake
  \/ PollGet
  \/ PollAxes
  \/ \E due \in BOOLEAN, ub \in {"stuck", "abort"} : PollVisit(due, ub)
  \/ PollSleep

\* a Poller over a started MotorController whose connection stays up
NextPoller ==
  \/ CtrlStart
  \/ PollerUser
  \/ PollThread
  \/ PollSyncEnqueue
  \/ PollSyncReturn
  \/ SyncTimeout(PollCaller)
  \/ PollSyncTimeoutRemove
  \/ WriterSend(TRUE)
  \/ ReplyLine

SpecPoller == InitPoller /\ [][NextPoller]_vars

\* callback-style requests against a started controller on which
\* registerOperationCallbacks was called
NextOp ==
  \/ NextCb
  \/ AsyncOpStart
  \/ CbFinish

SpecOp == InitOp /\ [][NextOp]_vars

\* MotorController::stop() called on a controller that was started
StopStarted ==
  /\ nStarts > 0
  /\ StopRequest

\* a MotorController that is started, stopped and started again, with
\* callback-style requests
NextLife ==
  \/ CtrlStart
  \/ CtrlStartAgain
  \/ StopStarted
  \/ StopJoinCb
  \/ StopJoinWriter
  \/ StopClear
  \/ CbWorker
  \/ WriterWorker
  \/ CbCaller
  \/ ReplyLine

SpecLife == Init /\ [][NextLife]_vars

\* the kinds other than "num" a reply to cmd comes in; the reply to a
\* movement command carries no position
OddKinds(cmd) == IF cmd = "STR" THEN {"busy", "bare", "text"}
                 ELSE IF cmd = "RDP" THEN {"bare", "text"}
                 ELSE {}

\* the device answers a waiting request with a line of another kind
ReplyLineOf ==
  \E cmd \in AllCmds :
    \E kind \in OddKinds(cmd) :
      /\ pending[makeKey(cmd, AxisParam)] # <<>>
      /\ RecvLineOf(cmd, AxisParam, kind)

\* one movement command through a KohzuManager whose connection stays up and
\* which is not stopped, with replies of every kind
NextMgrOne ==
  \/ ConnectThread
  \/ MgrStartAsync
  \/ MgrCtrlStart
  \/ MgrMoveFirst
  \/ MgrMovePoller
  \/ MgrMoveCache
  \/ MgrMoveSend
  \/ MgrMoveEnqueue
  \/ MgrCallbacks
  \/ CbTop
  \/ CbTake
  \/ CbGet
  \/ WriterSend(TRUE)
  \/ ReplyLine
  \/ ReplyLineOf

SpecMgrOne == InitMgr /\ [][NextMgrOne]_vars

\* one movement command through a KohzuManager, movement calls it refuses,
\* and KohzuManager::stop()
NextMgrGate ==
  \/ ConnectThread
  \/ MgrStartAsync
  \/ MgrCtrlStart
  \/ MgrMoveRefused
  \/ MgrMoveFirst
  \/ MgrMovePoller
  \/ MgrMoveCache
  \/ MgrMoveSend
  \/ MgrMoveEnqueue
  \/ MgrStop
  \/ MgrCallbacks
  \/ CbTop
  \/ CbTake
  \/ CbExit
  \/ CbGet
  \/ WriterSend(TRUE)
  \/ WriterExit
  \/ ReplyLine

SpecMgrGate == InitMgr /\ [][NextMgrGate]_vars

\* Parser::parse is called with the line
Decode(impl) ==
  /\ pImpl = ""
  /\ pLine # <<>>
  /\ pImpl' = impl
  /\ pResp' = IF impl = "hpp" THEN parse(pLine) ELSE parseCpp(pLine)
  /\ UNCHANGED <<pIn, pLine, wrVars, cacheVars, opVars, gateVars, tcVars, moreVars, pollVars, pipeVars,
                 mgrVars>>

\* what the steps of the worker pool leave alone
notPoolVars == <<wrVars, cacheVars, opVars, gateVars, parseVars, tcVars, rawVars, axVars, monVars,
                 pollVars, pipeVars, mgrVars>>

\* a task twice for each handler
SpontTasksTwice(n, serial) == [i \in 1..(2 * n) |-> <<((i - 1) % n) + 1, serial>>]

\* notifySpontaneous: one task for each registered handler
SpontTasks(n, serial) == [h \in 1..n |-> <<h, serial>>]

\* taskCv_.notify_all()
NotifyAll(f) == [w \in PoolWorkers |-> IF f[w] = "wait" THEN "woken" ELSE f[w]]

\* Dispatcher::registerSpontaneousHandler
RegisterSpont ==
  /\ nHandlers < MaxHandlers
  /\ dStopPc = "idle"
  /\ nHandlers' = nHandlers + 1
  /\ UNCHANGED <<notPoolVars, taskQueue, taskMtx, stopWorkers, dwPc, dwTask, dStopPc, invoked,
                 spontKey>>

\* the recv handler with a line, on a Dispatcher with spontaneous handlers:
\* tryFulfill, and notifySpontaneous when it returned false
RecvLinePool(cmd, axis) ==
  /\ lineNo < MaxLines
  /\ dStopPc = "idle"
  /\ taskMtx = "free"
  /\ recvLine(cmd, axis)
  /\ IF recvHandlerSet /\ pending[replyKey(cmd, axis)] = <<>>
     THEN /\ spontKey' = Append(spontKey, replyKey(cmd, axis))
          /\ IF nHandlers = 0
             THEN UNCHANGED <<taskQueue, dwPc>>
             ELSE /\ taskQueue' = taskQueue \o SpontTasks(nHandlers, lineNo + 1)
                  /\ dwPc' = NotifyAll(dwPc)
     ELSE UNCHANGED <<spontKey, taskQueue, dwPc>>
  /\ UNCHANGED <<wrVars, cacheVars, opVars, gateVars, parseVars, tcVars, rawVars, axVars, monVars,
                 pollVars, mgrVars, nHandlers, taskMtx, stopWorkers, dwTask, dStopPc, invoked>>

\* the worker lambda: while (!stopWorkers_.load())
DwLoopTest(w) ==
  /\ dwPc[w] = "loop"
  /\ dwPc' = [dwPc EXCEPT ![w] = IF stopWorkers THEN "done" ELSE "lock"]
  /\ UNCHANGED <<notPoolVars, nHandlers, taskQueue, taskMtx, stopWorkers, dwTask, dStopPc,
                 invoked, spontKey>>

\* the worker owns taskMtx_ and evaluates the predicate of taskCv_.wait: it
\* breaks, pops a task, or is about to block with the mutex still its own
DwCheck(w) ==
  /\ dwPc[w] \in {"lock", "woken"}
  /\ taskMtx = "free"
  /\ IF stopWorkers \/ taskQueue # <<>>
     THEN IF taskQueue = <<>>
          THEN /\ dwPc' = [dwPc EXCEPT ![w] = "done"]
               /\ UNCHANGED <<taskQueue, dwTask, taskMtx>>
          ELSE /\ dwTask' = [dwTask EXCEPT ![w] = Head(taskQueue)]
               /\ taskQueue' = Tail(taskQueue)
               /\ dwPc' = [dwPc EXCEPT ![w] = "run"]
               /\ UNCHANGED taskMtx
     ELSE /\ dwPc' = [dwPc EXCEPT ![w] = "towait"]
          /\ taskMtx' = w
          /\ UNCHANGED <<taskQueue, dwTask>>
  /\ UNCHANGED <<notPoolVars, nHandlers, stopWorkers, dStopPc, invoked, spontKey>>

\* taskCv_.wait: the worker releases taskMtx_ and blocks
DwBlock(w) ==
  /\ dwPc[w] = "towait"
  /\ dwPc' = [dwPc EXCEPT ![w] = "wait"]
  /\ taskMtx' = "free"
  /\ UNCHANGED <<notPoolVars, nHandlers, taskQueue, stopWorkers, dwTask, dStopPc, invoked,
                 spontKey>>

\* the worker runs the task: the handler is called with the reply
DwRun(w) ==
  /\ dwPc[w] = "run"
  /\ invoked' = [invoked EXCEPT ![dwTask[w]] = @ + 1]
  /\ dwTask' = [dwTask EXCEPT ![w] = NoTask]
  /\ dwPc' = [dwPc EXCEPT ![w] = "loop"]
  /\ UNCHANGED <<notPoolVars, nHandlers, taskQueue, taskMtx, stopWorkers, dStopPc, spontKey>>

\* stopAndJoinWorkers: stopWorkers_.store(true), taskMtx_ not taken
DStopStore ==
  /\ dStopPc = "idle"
  /\ \A w \in PoolWorkers : dwPc[w] # "none"
  /\ stopWorkers' = TRUE
  /\ dStopPc' = "notify"
  /\ UNCHANGED <<notPoolVars, nHandlers, taskQueue, taskMtx, dwPc, dwTask, invoked, spontKey>>

\* stopAndJoinWorkers: taskCv_.notify_all()
DStopNotify ==
  /\ dStopPc = "notify"
  /\ dwPc' = NotifyAll(dwPc)
  /\ dStopPc' = "join"
  /\ UNCHANGED <<notPoolVars, nHandlers, taskQueue, taskMtx, stopWorkers, dwTask, invoked,
                 spontKey>>

\* stopAndJoinWorkers: every join has returned
DStopJoin ==
  /\ dStopPc = "join"
  /\ \A w \in PoolWorkers : dwPc[w] = "done"
  /\ dStopPc' = "done"
  /\ UNCHANGED <<notPoolVars, nHandlers, taskQueue, taskMtx, stopWorkers, dwPc, dwTask,
                 invoked, spontKey>>

\* the std::string of a command or an axis decoded from a line
StrOf(cs) ==
  CASE cs = <<>> -> ""
    [] cs = <<"1">> -> "1"
    [] cs = <<"1", "2">> -> "12"
    [] cs = <<"R", "D", "P">> -> "RDP"
    [] cs = <<"S", "Y", "S">> -> "SYS"
    [] OTHER -> "?"

\* a handler that takes every line for valid
NeverInvalid(resp) == FALSE

\* the recv handler's test of the decoded line: if (!resp.valid) return
Invalid(resp) == ~resp.valid

\* the lines the device sends to the recv handler, well-formed and not
RawInputs ==
  [stx : {FALSE},
   type : {"C"},
   tab : {TRUE},
   cmd : {<<"R", "D", "P">>, <<"S", "Y", "S">>},
   tail : {<<"1">>, <<"1", "x">>},
   fields : {<<>>}]

\* the recv handler with a line as it came from the wire: Parser::parse, the
\* return on an invalid Response, else tryFulfill and notifySpontaneous
RecvRaw(in, impl) ==
  /\ lineNo < MaxLines
  /\ dStopPc = "idle"
  /\ taskMtx = "free"
  /\ recvHandlerSet
  /\ reading
  /\ LET resp == IF impl = "hpp" THEN parse(MkLine(in)) ELSE parseCpp(MkLine(in))
         k == replyKey(StrOf(resp.cmd), StrOf(resp.axis))
     IN /\ rawResp' = resp
        /\ lineNo' = lineNo + 1
        /\ IF Invalid(resp)
           THEN UNCHANGED <<dispVars, spontKey, taskQueue, dwPc>>
           ELSE IF k \in Keys /\ pending[k] # <<>>
                THEN /\ tryFulfillHit(k, lineNo + 1)
                     /\ UNCHANGED <<spontKey, taskQueue, dwPc>>
                ELSE /\ spont' = Append(spont, lineNo + 1)
                     /\ spontKey' = Append(spontKey, k)
                     /\ UNCHANGED <<pending, slotKey, slotOwner, slotState, slotVal, slotErr,
                                    failedFor, nValue, nError, registered, matched>>
                     /\ IF nHandlers = 0
                        THEN UNCHANGED <<taskQueue, dwPc>>
                        ELSE /\ taskQueue' = taskQueue \o SpontTasks(nHandlers, lineNo + 1)
                             /\ dwPc' = NotifyAll(dwPc)
  /\ UNCHANGED <<connected, reading, ioPosted, recvHandlerSet, onDisconnectSet, writerVars,
                 ctrlVars, syncVars, asyncVars, wrVars, cacheVars, opVars, gateVars, parseVars,
                 tcVars, axVars, monVars, pollVars, mgrVars, nHandlers, taskMtx, stopWorkers, dwTask,
                 dStopPc, invoked>>

PoolWorker ==
  \E w \in PoolWorkers : DwLoopTest(w) \/ DwCheck(w) \/ DwBlock(w) \/ DwRun(w)

\* requests of one caller and lines of the device, with or without a request
\* waiting for them, on a Dispatcher with spontaneous handlers
NextRoute ==
  \/ CtrlStart
  \/ RegisterSpont
  \/ \E cmd \in SyncCmds : SendSyncBegin(PollCaller, cmd)
  \/ SyncEnqueue(PollCaller)
  \/ SyncReturn(PollCaller)
  \/ WriterSend(TRUE)
  \/ \E cmd \in AllCmds : RecvLinePool(cmd, AxisParam)
  \/ PoolWorker

SpecRoute == InitRoute /\ [][NextRoute]_vars

\* the same with lines as they come from the wire, decoded by either
\* definition of Parser::parse
NextRaw ==
  \/ CtrlStart
  \/ RegisterSpont
  \/ \E cmd \in SyncCmds : SendSyncBegin(PollCaller, cmd)
  \/ SyncEnqueue(PollCaller)
  \/ SyncReturn(PollCaller)
  \/ WriterSend(TRUE)
  \/ \E in \in RawInputs, impl \in ParseImpls : RecvRaw(in, impl)
  \/ PoolWorker

SpecRaw == InitRoute /\ [][NextRaw]_vars

\* ------------------------------------------- KohzuController's monitoring
\* One thread calls startMonitoring, stopMonitoring, addAxisToMonitor and
\* removeAxisToMonitor; the monitoring thread runs monitorThreadFunction.
MonAxes == {"1", "2"}

notMonVars == <<dispVars, tcpVars, writerVars, ctrlVars, syncVars, asyncVars, mgrVars, pollVars,
                wrVars, cacheVars, opVars, gateVars, parseVars, tcVars, poolVars, rawVars,
                axVars>>

\* monitorCv_.notify_one(): a thread blocked in the wait is woken
NotifyOne(p) == IF p = "wait" THEN "woken" ELSE p

\* KohzuController::startMonitoring
StartMonitoring(axes) ==
  /\ msPc = "idle"
  /\ mtPc = "none"
  /\ ~isMonitoringRunning
  /\ nMonStarts < MaxMonStarts
  /\ axesToMonitor' = axes
  /\ isMonitoringRunning' = TRUE
  /\ mtPc' = "top"
  /\ nMonStarts' = nMonStarts + 1
  /\ UNCHANGED <<notMonVars, monitorMutex, msPc>>

\* KohzuController::addAxisToMonitor
AddAxisToMonitor(a) ==
  /\ msPc = "idle"
  /\ monitorMutex = "free"
  /\ a \notin axesToMonitor
  /\ axesToMonitor' = axesToMonitor \cup {a}
  /\ mtPc' = NotifyOne(mtPc)
  /\ UNCHANGED <<notMonVars, isMonitoringRunning, monitorMutex, msPc, nMonStarts>>

\* KohzuController::removeAxisToMonitor
RemoveAxisToMonitor(a) ==
  /\ msPc = "idle"
  /\ monitorMutex = "free"
  /\ a \in axesToMonitor
  /\ axesToMonitor' = axesToMonitor \ {a}
  /\ UNCHANGED <<notMonVars, isMonitoringRunning, monitorMutex, mtPc, msPc, nMonStarts>>

\* monitorThreadFunction: while (isMonitoringRunning_.load())
MtTop ==
  /\ mtPc = "top"
  /\ mtPc' = IF isMonitoringRunning THEN "lock" ELSE "exit"
  /\ UNCHANGED <<notMonVars, isMonitoringRunning, axesToMonitor, monitorMutex, msPc, nMonStarts>>

\* monitorThreadFunction: under monitorMutex_, the predicate of
\* monitorCv_.wait; when it holds, the break or the copy of the axes
MtCheck ==
  /\ mtPc \in {"lock", "woken"}
  /\ monitorMutex = "free"
  /\ IF ~isMonitoringRunning
     THEN mtPc' = "exit" /\ UNCHANGED monitorMutex
     ELSE IF axesToMonitor # {}
          THEN mtPc' = "read" /\ UNCHANGED monitorMutex
          ELSE mtPc' = "towait" /\ monitorMutex' = "monitor"
  /\ UNCHANGED <<notMonVars, isMonitoringRunning, axesToMonitor, msPc, nMonStarts>>

\* monitorCv_.wait: the predicate was false; release monitorMutex_ and block
MtBlock ==
  /\ mtPc = "towait"
  /\ mtPc' = "wait"
  /\ monitorMutex' = "free"
  /\ UNCHANGED <<notMonVars, isMonitoringRunning, axesToMonitor, msPc, nMonStarts>>

\* monitorThreadFunction: readPosition and readStatus for the copied axes,
\* then sleep_for
MtRead ==
  /\ mtPc = "read"
  /\ mtPc' = "top"
  /\ UNCHANGED <<notMonVars, isMonitoringRunning, axesToMonitor, monitorMutex, msPc, nMonStarts>>

\* stopMonitoring: isMonitoringRunning_.store(false), without monitorMutex_
StopMonitoringStore ==
  /\ msPc = "idle"
  /\ isMonitoringRunning
  /\ isMonitoringRunning' = FALSE
  /\ msPc' = "notify"
  /\ UNCHANGED <<notMonVars, axesToMonitor, monitorMutex, mtPc, nMonStarts>>

\* stopMonitoring: monitorCv_.notify_one()
StopMonitoringNotify ==
  /\ msPc = "notify"
  /\ mtPc' = NotifyOne(mtPc)
  /\ msPc' = "join"
  /\ UNCHANGED <<notMonVars, isMonitoringRunning, axesToMonitor, monitorMutex, nMonStarts>>

\* stopMonitoring: monitoringThread_->join() returns, monitoringThread_.reset()
StopMonitoringJoin ==
  /\ msPc = "join"
  /\ mtPc = "exit"
  /\ mtPc' = "none"
  /\ msPc' = "idle"
  /\ UNCHANGED <<notMonVars, isMonitoringRunning, axesToMonitor, monitorMutex, nMonStarts>>

NextMon ==
  \/ \E axes \in SUBSET MonAxes : StartMonitoring(axes)
  \/ \E a \in MonAxes : AddAxisToMonitor(a)
  \/ \E a \in MonAxes : RemoveAxisToMonitor(a)
  \/ MtTop
  \/ MtCheck
  \/ MtBlock
  \/ MtRead
  \/ StopMonitoringStore
  \/ StopMonitoringNotify
  \/ StopMonitoringJoin

SpecMon == InitTcp /\ [][NextMon]_vars

\* the worker pool with spontaneous replies, and the Dispatcher's teardown
NextPoolStop ==
  \/ CtrlStart
  \/ RegisterSpont
  \/ \E cmd \in SyncCmds : RecvLinePool(cmd, AxisParam)
  \/ PoolWorker
  \/ DStopStore
  \/ DStopNotify
  \/ DStopJoin

SpecPoolStop == InitRoute /\ [][NextPoolStop]_vars

\* what the steps of an AsioTcpClient used on its own leave alone
notTcpVars == <<wrVars, cacheVars, opVars, gateVars, parseVars, moreVars, pollVars, pipeVars,
               mgrVars>>

\* connected_.store(false) under cbMtx_, then a copy of onDisconnect_ is
\* posted to the io_context: the common tail of every error path
tcpDown ==
  /\ tConnected' = FALSE
  /\ tDowns' = IF tConnected THEN tDowns + 1 ELSE tDowns
  /\ tPosted' = tPosted + 1

\* asyncReadLine's completion handler with an error code: the peer closed or
\* reset the connection, or the socket was closed under the read
TcpReadError ==
  /\ tIo = "run"
  /\ tReadPending
  /\ tReadPending' = FALSE
  /\ tcpDown
  /\ UNCHANGED <<notTcpVars, tOpen, tIo, tWrites, tSends, tDiscCalls, tCbRuns, tLines, wire,
                 rbuf, delivered>>

\* AsioTcpClient::sendLine: throws when connected_ is false, else posts the
\* write to the strand
TcpSendLine ==
  /\ tSends < MaxSends
  /\ tSends' = tSends + 1
  /\ tWrites' = IF tConnected THEN tWrites + 1 ELSE tWrites
  /\ UNCHANGED <<notTcpVars, tConnected, tOpen, tReadPending, tIo, tPosted, tDiscCalls,
                 tCbRuns, tDowns, tLines, wire, rbuf, delivered>>

\* the posted write runs: boost::asio::write succeeds (ok) or fails; it fails
\* on a closed socket
TcpWrite(ok) ==
  /\ tIo = "run"
  /\ tWrites > 0
  /\ ok => tOpen
  /\ tWrites' = tWrites - 1
  /\ IF ok THEN UNCHANGED <<tConnected, tDowns, tPosted>> ELSE tcpDown
  /\ UNCHANGED <<notTcpVars, tOpen, tReadPending, tIo, tSends, tDiscCalls, tCbRuns, tLines,
                 wire, rbuf, delivered>>

\* AsioTcpClient::disconnect(): shutdown and close of the socket, then the
\* common tail
TcpDisconnect ==
  /\ tDiscCalls < MaxDisconnects
  /\ tDiscCalls' = tDiscCalls + 1
  /\ tOpen' = FALSE
  /\ tcpDown
  /\ UNCHANGED <<notTcpVars, tReadPending, tIo, tWrites, tSends, tCbRuns, tLines, wire, rbuf,
                 delivered>>

\* AsioTcpClient::stop(): stopIo stops the io_context and joins its thread
TcpStop ==
  /\ tIo = "run"
  /\ tIo' = "stopped"
  /\ UNCHANGED <<notTcpVars, tConnected, tOpen, tReadPending, tPosted, tWrites, tSends,
                 tDiscCalls, tCbRuns, tDowns, tLines, wire, rbuf, delivered>>

\* the io thread runs a posted copy of onDisconnect_
TcpRunCb ==
  /\ tIo = "run"
  /\ tPosted > 0
  /\ tPosted' = tPosted - 1
  /\ tCbRuns' = tCbRuns + 1
  /\ UNCHANGED <<notTcpVars, tConnected, tOpen, tReadPending, tIo, tWrites, tSends,
                 tDiscCalls, tDowns, tLines, wire, rbuf, delivered>>

\* async_read_until: no CR LF in the buffer yet, n more bytes are read into it
TcpReadSome(n) ==
  /\ tIo = "run"
  /\ tReadPending
  /\ MatchCRLF(rbuf) = 0
  /\ n \in 1..Len(wire)
  /\ rbuf' = rbuf \o SubSeq(wire, 1, n)
  /\ wire' = SubSeq(wire, n + 1, Len(wire))
  /\ UNCHANGED <<notTcpVars, tConnected, tOpen, tReadPending, tIo, tPosted, tWrites, tSends,
                 tDiscCalls, tCbRuns, tDowns, tLines, delivered>>

\* asyncReadLine's completion handler without error: getline, consume,
\* handler(line), and the next asyncReadLine
TcpReadLine ==
  /\ tIo = "run"
  /\ tReadPending
  /\ MatchCRLF(rbuf) > 0
  /\ delivered' = Append(delivered, StripCR(getline(rbuf)))
  /\ rbuf' = consume(AfterGetline(rbuf), MatchCRLF(rbuf))
  /\ UNCHANGED <<notTcpVars, tConnected, tOpen, tReadPending, tIo, tPosted, tWrites, tSends,
                 tDiscCalls, tCbRuns, tDowns, tLines, wire>>

\* the connection of an AsioTcpClient goes down
NextTcp ==
  \/ TcpReadError
  \/ TcpSendLine
  \/ \E ok \in BOOLEAN : TcpWrite(ok)
  \/ TcpDisconnect
  \/ TcpStop
  \/ TcpRunCb

SpecTcp == InitTcp /\ [][NextTcp]_vars

\* an AsioTcpClient receives the lines of a device
NextRead ==
  \/ \E n \in 1..Len(wire) : TcpReadSome(n)
  \/ TcpReadLine

SpecRead == InitRead /\ [][NextRead]_vars

\* Parser::parse on one line, under either of its definitions
NextParse == \E impl \in ParseImpls : Decode(impl)

SpecParse == InitParse /\ [][NextParse]_vars

\* the operation notifications of a Poller over a started MotorController,
\* with replies of every kind and a Writer whose sends may fail
NextPollerFin ==
  \/ CtrlStart
  \/ \E a \in Axes : PollerNotifyStarted(a)
  \/ SchedCheck
  \/ SchedSend
  \/ SchedEnqueue
  \/ SchedEmplace
  \/ \E a \in Axes : PollerNotifyFinished(a)
  \/ PollerFinalRead
  \/ PollerFinishedErase
  \/ PollSyncEnqueue
  \/ PollSyncReturn
  \/ SyncTimeout(PollCaller)
  \/ PollSyncTimeoutRemove
  \/ \E ok \in BOOLEAN : WriterSend(ok)
  \/ ReplyLine
  \/ ReplyLineOf

SpecPollerFin == InitPoller /\ [][NextPollerFin]_vars

\* operations that overlap on an axis of a running Poller
NextOverlap ==
  \/ CtrlStart
  \/ PollerStartCall
  \/ PollThread
  \/ \E a \in Axes : TrackStarted(a)
  \/ SchedCheck
  \/ SchedSend
  \/ SchedEnqueue
  \/ SchedEmplace
  \/ \E a \in Axes : TrackFinished(a)
  \/ PollerFinalRead
  \/ PollerFinishedErase
  \/ PollSyncEnqueue
  \/ PollSyncReturn
  \/ SyncTimeout(PollCaller)
  \/ PollSyncTimeoutRemove
  \/ WriterSend(TRUE)
  \/ ReplyLine

SpecOverlap == InitPoller /\ [][NextOverlap]_vars

\* axes added to and removed from a running Poller between operations
NextAxes ==
  \/ CtrlStart
  \/ PollerStartCall
  \/ PollThread
  \/ \E a \in Axes : TrackAdded(a)
  \/ \E a \in Axes : PollerRemoveAxis(a)
  \/ PollerRemoveInflight
  \/ TrackRemoved
  \/ \E a \in Axes : PollerNotifyStarted(a)
  \/ SchedCheck
  \/ SchedSend
  \/ SchedEnqueue
  \/ SchedEmplace
  \/ WriterSend(TRUE)
  \/ ReplyLine

SpecAxes == InitPoller /\ [][NextAxes]_vars

\* ------------------------------------------------- Writer, used on its own
\* A Writer over an ITcpClient whose sendLine returns or throws; threads call
\* enqueue and tryEnqueue, one thread calls start() and stop(flush). As
\* Writer.hpp asks, start() is called before anything is enqueued.
notWriterVars == <<dispVars, tcpVars, writer, ctrlVars, syncVars, asyncVars, mgrVars,
                   pollVars, cacheVars, opVars, gateVars, parseVars, tcVars, moreVars>>

\* a push_front where the code has push_back
QueuePushFront(q, x) == <<x>> \o q

\* queue_.push_back(line) in enqueue / tryEnqueue
QueuePush(q, x) == Append(q, x)

\* workerLoop after sendLine has thrown: on to the error handler, then break
AfterSendError == "err"

\* a stop that never drains: the queue is cleared whatever flush says
StopKeepsDropped(flush, q) == <<>>

\* Writer::stop: queue_ after the critical section
StopKeeps(flush, q) == IF flush THEN q ELSE <<>>

\* Writer::start()
WrStart ==
  /\ opc = "idle"
  /\ ~wRunning
  /\ nWStarts < MaxWStarts
  /\ wRunning' = TRUE
  /\ wStop' = FALSE
  /\ wPc' = "wait"
  /\ wFailed' = FALSE
  /\ wStopped' = "no"
  /\ nWStarts' = nWStarts + 1
  /\ UNCHANGED <<notWriterVars, wq, wItem, wSent, wAccepted, wFails, wErrCalls, wMtxOwner, epc,
                 eLine, nEnq, opc, oFlush, qAtStop, nWStops>>

\* Writer::stop(flush): the critical section on mtx_
WrStopCall(flush) ==
  /\ opc = "idle"
  /\ wMtxOwner = "free"
  /\ nWStops < MaxWStops
  /\ wStop' = TRUE
  /\ wq' = StopKeeps(flush, wq)
  /\ oFlush' = flush
  /\ qAtStop' = wq
  /\ opc' = "join"
  /\ UNCHANGED <<notWriterVars, wPc, wRunning, wItem, wSent, wAccepted, wFails, wErrCalls, wMtxOwner,
                 wFailed, epc, eLine, nEnq, wStopped, nWStarts, nWStops>>

\* Writer::stop: workerThread_.join() and running_.store(false)
WrStopJoin ==
  /\ opc = "join"
  /\ wPc \in {"exit", "none"}
  /\ wPc' = "none"
  /\ wRunning' = FALSE
  /\ wStopped' = IF oFlush THEN "flush" ELSE "drop"
  /\ nWStops' = nWStops + 1
  /\ opc' = "idle"
  /\ UNCHANGED <<notWriterVars, wq, wStop, wItem, wSent, wAccepted, wFails, wErrCalls, wMtxOwner,
                 wFailed, epc, eLine, nEnq, oFlush, qAtStop, nWStarts>>

\* a thread enters Writer::enqueue(line)
WrEnqueueCall(c) ==
  /\ epc[c] = "idle"
  /\ nWStarts > 0
  /\ nEnq < MaxWLines
  /\ nEnq' = nEnq + 1
  /\ eLine' = [eLine EXCEPT ![c] = nEnq + 1]
  /\ epc' = [epc EXCEPT ![c] = "enq"]
  /\ UNCHANGED <<notWriterVars, wq, wStop, wPc, wRunning, wItem, wSent, wAccepted, wFails,
                 wErrCalls, wMtxOwner, wFailed, opc, oFlush, qAtStop, wStopped,
                 nWStarts, nWStops>>

\* Writer::enqueue: cv_not_full_.wait is over, then throw or push_back
WrEnqueue(c) ==
  /\ epc[c] = "enq"
  /\ wMtxOwner = "free"
  /\ wStop \/ Len(wq) < WriterMaxQueue
  /\ IF wStop
     THEN UNCHANGED <<wq, wAccepted>>
     ELSE /\ wq' = QueuePush(wq, eLine[c])
          /\ wAccepted' = Append(wAccepted, eLine[c])
  /\ epc' = [epc EXCEPT ![c] = "idle"]
  /\ eLine' = [eLine EXCEPT ![c] = NoLine]
  /\ UNCHANGED <<notWriterVars, wStop, wPc, wRunning, wItem, wSent, wFails, wErrCalls, wMtxOwner,
                 wFailed, nEnq, opc, oFlush, qAtStop, wStopped, nWStarts,
                 nWStops>>

\* Writer::tryEnqueue(line)
WrTryEnqueue(c) ==
  /\ epc[c] = "idle"
  /\ wMtxOwner = "free"
  /\ nWStarts > 0
  /\ nEnq < MaxWLines
  /\ nEnq' = nEnq + 1
  /\ IF wStop \/ Len(wq) >= WriterMaxQueue
     THEN UNCHANGED <<wq, wAccepted>>
     ELSE /\ wq' = QueuePush(wq, nEnq + 1)
          /\ wAccepted' = Append(wAccepted, nEnq + 1)
  /\ UNCHANGED <<notWriterVars, wStop, wPc, wRunning, wItem, wSent, wFails, wErrCalls, wMtxOwner,
                 wFailed, epc, eLine, opc, oFlush, qAtStop, wStopped,
                 nWStarts, nWStops>>

\* workerLoop: the critical section that pops a line, or the break on an
\* empty queue with stopRequested_ set
WrTake ==
  /\ wMtxOwner = "free"
  /\ wPc = "wait"
  /\ wStop \/ wq # <<>>
  /\ IF wq # <<>>
     THEN /\ wItem' = Head(wq)
          /\ wq' = Tail(wq)
          /\ wPc' = "send"
     ELSE /\ wPc' = "exit"
          /\ UNCHANGED <<wq, wItem>>
  /\ UNCHANGED <<notWriterVars, wStop, wRunning, wSent, wAccepted, wFails, wErrCalls, wMtxOwner,
                 wFailed, epc, eLine, nEnq, opc, oFlush, qAtStop, wStopped,
                 nWStarts, nWStops>>

\* workerLoop: client_->sendLine(item) returns (ok) or throws
WrSendLine(ok) ==
  /\ wPc = "send"
  /\ wSent' = Append(wSent, wItem)
  /\ wItem' = NoLine
  /\ IF ok
     THEN /\ wPc' = "wait"
          /\ UNCHANGED <<wFails, wFailed>>
     ELSE /\ wPc' = AfterSendError
          /\ wFails' = wFails + 1
          /\ wFailed' = TRUE
  /\ UNCHANGED <<notWriterVars, wq, wStop, wRunning, wAccepted, wErrCalls, wMtxOwner, epc, eLine,
                 nEnq, opc, oFlush, qAtStop, wStopped, nWStarts, nWStops>>

\* workerLoop's catch block: the worker locks mtx_ and calls errorHandler_(ep)
WrErrorHandler ==
  /\ wPc = "err"
  /\ wMtxOwner = "free"
  /\ wMtxOwner' = "worker"
  /\ wErrCalls' = wErrCalls + 1
  /\ wPc' = "handler"
  /\ UNCHANGED <<notWriterVars, wq, wStop, wRunning, wItem, wSent, wAccepted, wFails,
                 wFailed, epc, eLine, nEnq, opc, oFlush, qAtStop, wStopped,
                 nWStarts, nWStops>>

\* workerLoop's catch block: errorHandler_ returns and the lock_guard's scope ends
WrErrorReturn ==
  /\ wPc = "handler"
  /\ wMtxOwner' = "free"
  /\ wPc' = "errStore"
  /\ UNCHANGED <<notWriterVars, wq, wStop, wRunning, wItem, wSent, wAccepted, wFails,
                 wErrCalls, wFailed, epc, eLine, nEnq, opc, oFlush, qAtStop, wStopped,
                 nWStarts, nWStops>>

\* workerLoop's catch block: stopRequested_.store(true) and break
WrErrorStop ==
  /\ wPc = "errStore"
  /\ wStop' = TRUE
  /\ wPc' = "exit"
  /\ UNCHANGED <<notWriterVars, wq, wRunning, wItem, wSent, wAccepted, wFails, wErrCalls, wMtxOwner,
                 wFailed, epc, eLine, nEnq, opc, oFlush, qAtStop, wStopped,
                 nWStarts, nWStops>>

NextWriter ==
  \/ WrStart
  \/ \E flush \in BOOLEAN : WrStopCall(flush)
  \/ WrStopJoin
  \/ \E c \in Callers : WrEnqueueCall(c) \/ WrEnqueue(c) \/ WrTryEnqueue(c)
  \/ WrTake
  \/ \E ok \in BOOLEAN : WrSendLine(ok)
  \/ WrErrorHandler
  \/ WrErrorReturn
  \/ WrErrorStop

SpecWriter == Init /\ [][NextWriter]_vars

\* ----------------------------------------------------------------- claims
\* the slots registered for k that no fail path has resolved, in registration order
Live(k) == SelectSeq(registered[k], LAMBDA s : slotState[s] # "error")

\* C1: for every key, the n-th reply matched for the key completes the n-th
\* registered request of the key (fail paths aside), with that reply: completions
\* follow the registration order and carry the matching replies in arrival order.
C1_FifoPerKey ==
  \A k \in Keys :
    /\ Len(matched[k]) <= Len(Live(k))
    /\ \A n \in 1..Len(matched[k]) :
         /\ slotState[Live(k)[n]] = "value"
         /\ slotVal[Live(k)[n]] = matched[k][n]

\* two replies of one key have completed two requests while a third is pending
C1_Witness ==
  \E k \in Keys : Len(matched[k]) >= 2 /\ pending[k] # <<>>

\* C2: every promise is resolved at most once, by one set_value or by one
\* set_exception, never both.
C2_ResolvedAtMostOnce ==
  \A s \in Slots :
    /\ nValue[s] + nError[s] <= 1
    /\ slotState[s] = "value" <=> nValue[s] = 1
    /\ slotState[s] = "error" <=> nError[s] = 1
    /\ slotState[s] = "pending" <=> s \in InMap

\* one slot got a reply, one was failed by fail_one and one by fail_all
C2_Witness ==
  \E s1, s2, s3 \in Slots :
    /\ nValue[s1] = 1
    /\ slotErr[s2] = TimeoutMsg
    /\ slotErr[s3] = DisconnectMsg

\* C3: a slot failed with the timeout error is the slot of the sendSync call
\* that timed out.
C3_TimeoutFailsOwnSlot ==
  \A s \in Slots : slotErr[s] = TimeoutMsg => failedFor[s] = s

\* C4: the step in which the io thread runs the disconnect callback leaves
\* pending_ empty and every promise that was pending resolved with an error.
C4_DisconnectFailsAll ==
  [][ioPosted' = ioPosted - 1 =>
        /\ \A k \in Keys : pending'[k] = <<>>
        /\ \A s \in Slots : slotState[s] = "pending" =>
              slotState'[s] = "error" /\ slotErr'[s] = DisconnectMsg]_vars

\* the disconnect callback has failed two requests of one key at once
C4_Witness ==
  \E s1, s2 \in Slots :
    /\ s1 # s2
    /\ slotKey[s1] = slotKey[s2]
    /\ slotErr[s1] = DisconnectMsg
    /\ slotErr[s2] = DisconnectMsg

\* callback-style requests whose sendAsync call has returned
CbAccepted == {s \in Slots : slotOwner[s] = <<"cb">> /\ s # aSlot}

\* MotorController::stop() has returned and no thread of the controller is left
CtrlStopped ==
  /\ nStarts > 0
  /\ nStops = nStarts
  /\ stopPc = "idle"
  /\ cbPc = "none"
  /\ detached = {}

\* C10: the callback of an accepted callback-style request is never invoked
\* twice, and once the controller has stopped it has been invoked once.
C10_CallbackExactlyOnce ==
  /\ \A s \in Slots : cbCount[s] <= 1
  /\ CtrlStopped => \A s \in CbAccepted : cbCount[s] = 1

\* no thread is inside the manager's code and no callback is left to run
MgrQuiet ==
  /\ mStopped
  /\ detached = {}
  /\ \A t \in Threads : tpc[t] \in {"idle", "none"}

C6_MoveDecrementsOnce ==
  ~Crashed =>
    \A o \in Ops : accepted[o] =>
      /\ decremented[o] <= 1
      /\ decremented[o] = 1 => remaining[o] = 0
      /\ MgrQuiet => decremented[o] = 1

\* a start notification is between its fetch_add and poller_->start(), or a
\* finish notification between its fetch_sub and poller_->stop()
NotifyMidway == \E t \in Threads : tpc[t] \in {"m_poll", "nf_store", "nf_stop"}

\* C7: whenever no start or finish notification is mid-way, the Poller is
\* running if the counter is greater than zero and stopped if it is zero.
C7_PollerFollowsCounter ==
  (mPoller = "set" /\ ~NotifyMidway) => (pollerRunning <=> activeOps > 0)

\* the operations whose notifyOperationStarted has been called and whose
\* notifyOperationFinished has not
Outstanding == {o \in 1..nOps : decremented[o] = 0}

\* C8: the counter is never negative, and whenever no notification is mid-way
\* it equals the number of movement commands issued and not yet finished.
C8_CounterIsOutstanding ==
  /\ activeOps >= 0
  /\ ~NotifyMidway => activeOps = Cardinality(Outstanding)

\* the requests scheduleRdp issued for an axis that are not resolved yet
PollerUnresolved(a) == {s \in PollerIssued(a) : slotState[s] = "pending"}

\* C9: at most one RDP request issued by the Poller for an axis is unresolved.
C9_OneRdpInFlight ==
  ~PollAborted => \A a \in Axes : Cardinality(PollerUnresolved(a)) <= 1

\* C11: a slot failed with the enqueue error is the slot of the call whose
\* Writer::enqueue failed; no other request of the key is failed by that call.
C11_EnqueueFailsOwnSlot ==
  \A s \in Slots : slotErr[s] = "enqueue failed" => failedFor[s] = s

\* the slots of the sendSync calls that have run their timeout branch
TimedOutCalls == {failedFor[t] : t \in {u \in Slots : slotErr[u] = TimeoutMsg}}

\* C12: a sendSync call that has failed with the timeout leaves no pending
\* slot of its own, and a reply is never stored in the slot of a call that has
\* taken the timeout branch (the reply would reach neither the caller nor the
\* spontaneous handlers).
C12_TimeoutLeavesNoSlot ==
  /\ \A s \in TimedOutCalls : slotState[s] # "pending"
  /\ \A c \in Callers : pc[c] = "tmo" => slotState[mySlot[c]] # "value"

\* C13: a thread inside Writer::enqueue is never blocked: whatever the length
\* of the queue, its call can complete at once.
C13_EnqueueNeverBlocks ==
  \A c \in Callers : epc[c] = "enq" => ENABLED WrEnqueue(c)

\* position of a line in the history of successful enqueues (0: never accepted)
AcceptedAt(x) ==
  IF \E i \in 1..Len(wAccepted) : wAccepted[i] = x
  THEN CHOOSE i \in 1..Len(wAccepted) : wAccepted[i] = x
  ELSE 0

\* C14: the lines passed to sendLine are lines whose enqueue succeeded, each
\* passed once and in the order of the successful enqueues; one worker at most
\* holds a line; the queue never holds more than its capacity.
C14_SentInEnqueueOrder ==
  /\ \A i \in 1..Len(wSent) : AcceptedAt(wSent[i]) > 0
  /\ \A i, j \in 1..Len(wSent) : i < j => AcceptedAt(wSent[i]) < AcceptedAt(wSent[j])
  /\ wItem # NoLine => wPc = "send" /\ AcceptedAt(wItem) > 0
  /\ wItem # NoLine => \A i \in 1..Len(wSent) : AcceptedAt(wSent[i]) < AcceptedAt(wItem)
  /\ Len(wq) <= WriterMaxQueue

\* two lines have been sent by a Writer that was stopped and started again,
\* and a line accepted in between was never sent
C14_Witness ==
  /\ Len(wSent) >= 2
  /\ Len(wAccepted) > Len(wSent)
  /\ wq = <<>>
  /\ wItem = NoLine
  /\ nWStarts = 2

\* C15: for every sendLine call that threw, the error handler is called once
\* (it has been called by the time the worker has left), and from the failure
\* on the worker passes no further line to sendLine and no enqueue is accepted.
C15_SendFailureStopsWriter ==
  [][/\ wErrCalls' <= wFails'
     /\ (wFailed' /\ wPc' \in {"exit", "none"}) => wErrCalls' = wFails'
     /\ wFailed => wSent' = wSent
     /\ (wFailed /\ wFailed') => wAccepted' = wAccepted]_vars

\* the lines that were queued when the last stop() call took mtx_
QueuedAtStop == SeqToSet(qAtStop)

\* what stop(false) promises once it has returned: nothing of what was queued
\* is sent, and the queue is empty
DropHolds == wStopped = "drop" => QueuedAtStop \cap SeqToSet(wSent) = {} /\ wq = <<>>

ConnectionLost == nConnects > 0 /\ ~connected

\* C17: with autoReconnect set, while stop() has not been requested and the
\* connection is lost, the thread of runConnectLoop is still in its loop (a
\* thread that has left the loop makes no further connect attempt).
C17_ReconnectLoopAlive ==
  (autoReconnect /\ mRunning /\ ConnectionLost) => ctPc \notin {"done", "none"}

\* what StateCache::get(a) yields through KohzuManager::getStateCache(), with
\* nothing to read when getStateCache() returns nullptr
CacheGet(a) == IF getStateCache = "set" THEN <<cPos[a], cRun[a]>>
               ELSE <<NoLine, "unset">>

\* a position or a running value of the axis can be read
Present(a) == CacheGet(a) # <<NoLine, "unset">>

\* C18: once the connection is lost, a position or running value that can be
\* read for an axis can still be read after every further step (a disconnect,
\* a teardown, the construction of a new generation).
C18_CacheSurvivesDisconnect ==
  [][\A a \in Axes : (ConnectionLost /\ Present(a)) => Present(a)']_vars

\* the final read of a kind ("rdp" | "str") of the first move has completed:
\* its callback has run (cbArg holds what it was called with)
FinalReadDone(kind) ==
  \E s \in Slots : slotOwner[s] = <<kind, 1>> /\ cbCount[s] > 0

\* the slot of that final read
FinalReadSlot(kind) == CHOOSE s \in Slots : slotOwner[s] = <<kind, 1>>

\* the move and its follow-up reads have completed with an RDP reply that
\* carries a position and an STR reply that carries driving state 0
MoveCompleted ==
  /\ nOps = 1
  /\ FinalReadDone("rdp")
  /\ FinalReadDone("str")
  /\ cbArg[FinalReadSlot("rdp")][1] = "reply"
  /\ HasNumber(cbArg[FinalReadSlot("rdp")][2])
  /\ cbArg[FinalReadSlot("str")][1] = "reply"
  /\ KindOf(cbArg[FinalReadSlot("str")][2]) = "num"

\* C19: for a single move the cache shows running = true from the moment the
\* command is handed to sendAsync until the STR follow-up read has completed,
\* and once the move and both follow-up reads have completed with RDP position
\* p and STR driving state 0 it holds position = p and running = false.
C19_MoveUpdatesCache ==
  /\ (nOps = 1 /\ tpc[UserThread] \in {"m_send", "m_enq"}) => cRun[AxisParam] = "true"
  /\ (nOps = 1 /\ accepted[1] /\ ~FinalReadDone("str")) => cRun[AxisParam] = "true"
  /\ MoveCompleted =>
       /\ cPos[AxisParam] = cbArg[FinalReadSlot("rdp")][2]
       /\ cRun[AxisParam] = "false"

\* C20: when Poller::notifyOperationFinished returns, updatePosition has run
\* for the axis since the call began or the call has logged a failed final
\* read.
C20_FinalReadStoredOrLogged ==
  [][(upc = "fin_erase" /\ upc' = "idle") =>
        (posUpdated'[uAxis] \/ finLogged')]_vars

\* the callback-style movement requests
MoveReqs == {s \in Slots : slotOwner[s] = <<"cb">> /\ IsMovement(slotKey[s][1], slotKey[s][2])}

\* C21: onOperationFinish is called at most once for a callback-style movement
\* request, and only when the user's callback for that request has run.
C21_FinishAfterCallback ==
  \A s \in MoveReqs :
    /\ opFinished[s] <= 1
    /\ opFinished[s] = 1 => cbCount[s] >= 1

\* C22: the line of a callback-style movement request is in the Writer's queue
\* only after onOperationStart was called for it.
C22_StartBeforeEnqueue ==
  \A s \in MoveReqs : s \in SeqToSet(wq) => opStarted[s] >= 1

\* MotorController::stop() has returned
Stopped == nStops > 0 /\ stopPc = "idle"

\* C23: once stop() has returned the controller stays stopped: no writer, no
\* callback worker, no recv handler and no disconnect callback, whatever is
\* called afterwards.
C23_StoppedStaysStopped ==
  Stopped => /\ writer = "null"
             /\ ~cbWorkerRunning
             /\ ~recvHandlerSet
             /\ ~onDisconnectSet

\* a step in which a movement call is made: it is refused or it goes on to
\* notifyOperationStarted
MoveCalled == nRefused' # nRefused \/ nOps' # nOps

\* C24: a movement call made while the manager is not connected returns false
\* with a "Not connected" error for the callback, and leaves the Writer's
\* queue, the pending requests, the active-operations counter, the Poller and
\* the cache as they were.
C24_NotConnectedRefused ==
  [][(~mConnected /\ MoveCalled) =>
        /\ nRefused' = nRefused + 1
        /\ refusal' = "Not connected"
        /\ UNCHANGED <<wq, pending, nOps, activeOps, mPoller, pollerRunning, cPos, cRun>>]_vars

\* a movement call was refused as not connected while the manager held a
\* controller, after an earlier call had been refused before any connect
C24_Witness ==
  /\ nRefused = 2
  /\ refusal = "Not connected"
  /\ ~mConnected
  /\ mCtrl = "set"

\* the line being decoded has a type character first and a three-letter
\* command in its first field, and has been decoded
DecodedCmdLine ==
  /\ pImpl # ""
  /\ ~pIn.stx
  /\ pIn.type \in TypeChars
  /\ Len(pIn.cmd) = 3

\* the command of the line being decoded, as the device wrote it, is SYS
IsSysLine == [i \in 1..Len(pIn.cmd) |-> ToUpper(pIn.cmd[i])] = SYS

\* the tail of the first field holds a character that is not a digit
NonDigitTail == \E i \in 1..Len(pIn.tail) : pIn.tail[i] \notin Digits

C26_SysAlwaysValid ==
  (DecodedCmdLine /\ IsSysLine) =>
     /\ pResp.valid
     /\ pResp.axis = <<>>
     /\ pResp.params = IF pIn.fields # <<>> /\ pIn.fields[1] # <<>>
                        THEN <<pIn.fields[1]>> ELSE <<>>

\* C27: the poll thread gets through every visit of a watched axis, the one
\* that finds the axis due with no request in flight included, and so reaches
\* its next tick: it is never blocked in the visit and never leaves runLoop
\* through an exception.
C27_PollLoopReachesNextTick == ppc \notin {"stuck", "abort"}

\* C28: while the Writer's error callback runs, the worker that called it
\* does not own the Writer's queue mutex.
C28_NoMutexHeldInCallback == wPc = "handler" => wMtxOwner # "worker"

\* C29: the disconnect handler is never invoked more often than the
\* connection has gone from connected to disconnected.
C29_DisconnectHandlerOnce == tCbRuns <= tDowns

\* s is a prefix of t
IsPrefix(s, t) == Len(s) <= Len(t) /\ s = SubSeq(t, 1, Len(s))

\* C30: the lines handed to the recv handler are the lines the device sent,
\* without their CR LF, each once and in order; when every byte has arrived
\* and no complete line is left in the read buffer, all of them have been
\* handed over.
C30_LinesDeliveredInOrder ==
  /\ IsPrefix(delivered, tLines)
  /\ (wire = <<>> /\ MatchCRLF(rbuf) = 0) => delivered = tLines

\* a step in which the recv handler gets a line
LineHandled == lineNo' = lineNo + 1 /\ recvHandlerSet

\* the line resolved the head of a pending queue, and nothing else
RoutedToSlot ==
  \E k \in Keys :
    /\ pending[k] # <<>>
    /\ pending' = [pending EXCEPT ![k] = Tail(pending[k])]
    /\ slotState'[Head(pending[k])] = "value"
    /\ slotVal'[Head(pending[k])] = lineNo'
    /\ UNCHANGED <<spont, spontKey, taskQueue>>

\* the line went to the spontaneous handlers: one task for each of them, no
\* request was waiting under its key, and the pending map is as it was
RoutedToHandlers ==
  /\ spont' = Append(spont, lineNo')
  /\ Len(spontKey') = Len(spontKey) + 1
  /\ pending[spontKey'[Len(spontKey')]] = <<>>
  /\ taskQueue' = taskQueue \o [h \in 1..nHandlers |-> <<h, lineNo'>>]
  /\ UNCHANGED <<pending, slotState, slotVal, nValue, nError>>

\* C31: a valid line is routed to exactly one destination, the head pending
\* slot of its key when there is one and the spontaneous handlers otherwise,
\* and a handler is called at most once for a line, by a pool worker, and only
\* for lines that went to the handlers.
C31_RoutedToOneDestination ==
  [][/\ LineHandled => (RoutedToSlot /\ ~RoutedToHandlers) \/ (RoutedToHandlers /\ ~RoutedToSlot)
     /\ \A x \in PoolTasks :
          /\ invoked'[x] <= 1
          /\ invoked'[x] # invoked[x] => (x[2] \in SeqToSet(spont) /\ \E w \in PoolWorkers : dwTask[w] = x)]_vars

\* a reply resolved a request, a later line of the same key found no request
\* and both registered handlers have been called for it
C31_Witness ==
  /\ \E s \in Slots : slotState[s] = "value"
  /\ spont # <<>>
  /\ \E n \in 1..MaxLines : invoked[<<1, n>>] = 1 /\ invoked[<<2, n>>] = 1

\* C35: once stopAndJoinWorkers has sent its notification, no worker is
\* blocked in taskCv_.wait, where nothing would wake it for the join.
C35_TeardownTerminates ==
  dStopPc = "join" => \A w \in PoolWorkers : dwPc[w] # "wait"

\* C32: the recv handler's step for a line that fails to decode resolves and
\* removes no pending slot, hands nothing to the spontaneous handlers and adds
\* no task: the pending map and the handler queue are as they were.
C32_InvalidLineDropped ==
  [][(lineNo' = lineNo + 1 /\ ~rawResp'.valid) =>
        UNCHANGED <<pending, slotState, slotVal, slotErr, nValue, nError, matched, spont,
                    spontKey, taskQueue, invoked>>]_vars

\* a line with a non-digit tail has been dropped while a request of its
\* command was waiting and a handler was registered
C32_Witness ==
  /\ lineNo > 0
  /\ ~rawResp.valid
  /\ rawResp.cmd = <<"R", "D", "P">>
  /\ pending[<<"RDP", "1">>] # <<>>
  /\ nHandlers > 0

\* C33: an axis is in the Poller's active set exactly while at least one
\* operation on it is under way; with two overlapping operations it stays
\* active until notifyOperationFinished has been called for both.
C33_ActiveWhileOutstanding == \A a \in Axes : a \in activeAxes <=> opsOut[a] > 0

\* C34: once removeAxis(A) has returned and until A is added again, the Poller
\* has no in-flight entry, no last-scheduled entry and no active-set
\* membership for A, and no RDP for A is on its way.
C34_RemovedAxisGone ==
  \A a \in Axes :
    removed[a] =>
      /\ inflightRdp[a] = NoSlot
      /\ a \notin lastPolled
      /\ a \notin activeAxes
      /\ ~(upc \in {"sr_send", "sr_enq", "sr_emplace"} /\ uAxis = a)

\* C38: onOperationFinish is called only for a request for which
\* onOperationStart was called before, so a request that is no movement never
\* gets onOperationFinish, also when its first parameter is an axis.
C38_FinishOnlyAfterStart == \A s \in Slots : opFinished[s] >= 1 => opStarted[s] >= 1

\* a step of the program's own threads: everything but a line from the
\* device and a failure of the connection
ProgramStep ==
  \/ Lifecycle
  \/ CbWorker
  \/ WriterWorker
  \/ CbCaller
  \/ RunDisconnectCb

\* C36: MotorController::stop() terminates also when the reply to an
\* outstanding callback-style request never arrives: while stop() is under
\* way, one of the program's own threads can take a step without the device.
C36_StopTerminates == stopPc # "idle" => ENABLED ProgramStep

\* the place of a request in the order in which addPending registered the
\* requests of its key
RegisteredAt(s) ==
  CHOOSE i \in 1..Len(registered[slotKey[s]]) : registered[slotKey[s]][i] = s

\* C37: for two requests with the same key, the order in which their slots
\* were registered is the order in which their lines were enqueued to the
\* Writer.
C37_RegisteredInEnqueueOrder ==
  \A i, j \in 1..Len(wq) :
    (i < j /\ slotKey[wq[i]] = slotKey[wq[j]]) => RegisteredAt(wq[i]) < RegisteredAt(wq[j])

\* C39: KohzuManager::isConnected() is true only when the latest connect
\* attempt succeeded and no transport disconnect and no stop() has happened
\* since: it is not true while the client of that connection is down.
C39_ConnectedOnlyWhileUp == mConnected => connected

\* C40: KohzuController::stopMonitoring() terminates, also when the
\* monitoring thread waits for an axis to be added: once stopMonitoring has
\* notified and joins, the monitoring thread is not blocked in the wait.
C40_StopMonitoringTerminates == msPc = "join" => mtPc # "wait"

====
